---- MODULE Spec2Model ----
(***************************************************************************)
(* A model of the grawlix download engine: the SourceResponse evaluation   *)
(* loop, the id resolver, the buffered downloader and the progress file.   *)
(* Each part has its own specification over the shared variables; the      *)
(* variables of the parts a specification does not exercise stay idle.     *)
(***************************************************************************)
EXTENDS Integers, Sequences, FiniteSets, TLC

VARIABLES
    \* eval_source_response / make_request (src/source/download.rs)
    ev_plan,        \* the chain the source handed out: per hop, its number of requests
    ev_response,    \* `response`, the SourceResponse the loop is looking at
    ev_pc,          \* position in eval_source_response / make_request
    ev_idx,         \* index of the next request of `request.requests`
    ev_responses,   \* `responses`, the Vec of bodies collected so far
    ev_sent,        \* history: every request sent, with what the transport returned
    ev_calls,       \* history: every call of `request.transform`, with its argument
    ev_result,      \* what eval_source_response returned
    \* download_comics / download_and_write_comics: stream::iter(ids).map(..).buffered(5)
    dl_mode,        \* "try_collect" (download_comics) or "for_each" (download_and_write_comics)
    dl_ids,         \* `comic_ids`, the input Vec<ComicId>
    dl_world,       \* what the source answers: the ids whose pages / metadata requests fail
    dl_next,        \* how many ids stream::iter has handed to the buffer
    dl_queue,       \* the buffer's in-progress queue: indices of the futures, in push order
    dl_ready,       \* the futures of the queue that have completed, not yet yielded
    dl_out,         \* the Vec<Comic> try_collect has collected
    dl_written,     \* the comics write_comic has written (for_each)
    dl_log,         \* indices logged "Failed to download comic info" (for_each)
    dl_overtook,    \* history: some future completed before an earlier one of the queue
    dl_result,      \* what the call returned
    \* get_all_ids
    rs_world,       \* what the source answers to get_correct_id and get_series_ids
    rs_input,       \* `comicid`, the id get_all_ids is called with
    rs_pc,          \* position in get_all_ids
    rs_children,    \* `new_ids`, the children a Series listed
    rs_next,        \* how many children stream::iter has handed to the buffer
    rs_queue,       \* the buffer's in-progress queue: indices of children, in push order
    rs_ready,       \* the child resolutions that have completed, not yet yielded
    rs_evaluated,   \* `evaluated_ids`, the Vec<Result<Vec<ComicId>>> collected
    rs_calls,       \* history: the source calls made, in order
    rs_overtook,    \* history: some child resolution completed before an earlier one
    rs_result,      \* what get_all_ids returned
    rs_again,       \* get_all_ids called again on one id of the result
    \* the download command: get_comics, write_comics, setup_ctrlc (src/cli/utils.rs)
    fs_ledger,      \* the file PROGRESS_FILE on disk
    fs_out,         \* the output file of each comic: "absent", "partial" or "complete"
    cfg_overwrite,  \* config.overwrite
    cfg_format,     \* config.output_format: "CBZ" or "Dir"
    lg_batch,       \* the comics the inputs of the command line lead to
    run_no,         \* how many runs of the program have been started
    m_pc,           \* position of the main task ("off": no process is running)
    m_use_progress, \* config.use_progress_file of this run
    m_comics,       \* `comics`, what get_comics returned
    m_i,            \* position of the `for comic in comics.iter()` loop
    progress,       \* the AtomicUsize `progress`
    m_discovered,   \* history: this run searched the inputs for comics
    m_remove_failed,\* this run logged "Could not remove progress file"
    m_start_ledger, \* history: PROGRESS_FILE as it was when this run started
    h_pc,           \* position of the task spawned by setup_ctrlc
    h_rest,         \* `rest`, the slice the handler took
    h_k,            \* history: the comics completed when the interrupt arrived
    h_log,          \* history: what the interrupt did in this run, step by step
    lg_persist,     \* history: what the handler of this run wrote, and when
    lg_restores,    \* history: runs that restored the ledger since it was last created
    lg_remove_failures, \* history: failed removals of the ledger since it was last created
    lg_write_failed, \* history: a comic.write has returned Err in this or an earlier run
    \* comic_from_comicid / metadata_from_comicid, one call
    cf_id,          \* `comicid`, a leaf id
    cf_world,       \* what the source answers to get_pages and get_metadata for the id
    cf_pc,          \* position in comic_from_comicid
    cf_pages,       \* `pages`
    cf_metadata,    \* `metadata` of metadata_from_comicid
    cf_calls,       \* history: the source methods called and the requests evaluated
    cf_result,      \* what comic_from_comicid returned
    \* OnlinePage::download_page / decrypt_page (src/comic/page.rs)
    pg_bytes,       \* `bytes`, the body of the page response
    pg_enc,         \* `self.encryption`: the scheme and its key
    pg_pc,          \* position: "download", "done", "again"
    pg_out,         \* what download_page came to: the bytes returned, or a panic
    pg_back,        \* the returned bytes put through decrypt_page once more
    \* comicrack::export / comicrack::import (src/metadata/comicrack.rs)
    md_in,          \* the Metadata exported
    md_pc,          \* position: "export", "import", "done"
    md_xml,         \* the document export wrote: the child elements of ComicInfo
    md_back,        \* the Metadata import returned
    \* Comic::write (src/comic/write.rs) and Comic::from_cbz_file (src/comic/read.rs)
    ar_comic,       \* `self`, the comic written
    ar_format,      \* `comic_format`: "CBZ" or "Dir"
    ar_pc,          \* position in Comic::write, then in Comic::from_cbz_file
    ar_n,           \* index of the page the loop is at; then of the export; then of the zip entry
    ar_sink,        \* history: the calls made on the ComicFile, in order
    ar_result,      \* what Comic::write came to
    ar_read,        \* `comic` of from_cbz_file
    \* source_from_url, Source::id_from_url and source_from_name
    lk_url,         \* the url given on the command line
    lk_name,        \* a source name given to source_from_name
    lk_source,      \* what source_from_url(url) returned
    lk_id,          \* what source.id_from_url(url) returned
    lk_named,       \* what source_from_name(name) returned
    lk_back,        \* what source_from_name(source.name()) returned
    \* update of one series of the update file
    up_ids,         \* what get_all_ids returns for the series at its source
    up_file,        \* downloaded_issues of the series in the update file on disk
    up_disk,        \* the ids of the issues whose comic is written on disk
    up_pc,          \* where update is: "idle", "download", or "off"
    up_downloaded,  \* series.downloaded_issues of the running update
    up_comicids,    \* `comicids` of download_new_comics
    up_k,           \* how many of comicids download_and_write_comics has dealt with
    up_failed,      \* history: the ids whose comic_from_comicid returned Err in this update
    up_runs         \* how many updates have been started

evVars == <<ev_plan, ev_response, ev_pc, ev_idx, ev_responses, ev_sent, ev_calls, ev_result>>

dlVars == <<dl_mode, dl_ids, dl_world, dl_next, dl_queue, dl_ready, dl_out, dl_written,
            dl_log, dl_overtook, dl_result>>

rsVars == <<rs_world, rs_input, rs_pc, rs_children, rs_next, rs_queue, rs_ready, rs_evaluated,
            rs_calls, rs_overtook, rs_result, rs_again>>

lgVars == <<fs_ledger, fs_out, cfg_overwrite, cfg_format, lg_batch, run_no, m_pc, m_use_progress,
            m_comics, m_i, progress, m_discovered, m_remove_failed, m_start_ledger, h_pc,
            h_rest, h_k, h_log, lg_persist, lg_restores, lg_remove_failures,
            lg_write_failed>>

cfVars == <<cf_id, cf_world, cf_pc, cf_pages, cf_metadata, cf_calls, cf_result>>

pgVars == <<pg_bytes, pg_enc, pg_pc, pg_out, pg_back>>

mdVars == <<md_in, md_pc, md_xml, md_back>>

arVars == <<ar_comic, ar_format, ar_pc, ar_n, ar_sink, ar_result, ar_read>>

lkVars == <<lk_url, lk_name, lk_source, lk_id, lk_named, lk_back>>

upVars == <<up_ids, up_file, up_disk, up_pc, up_downloaded, up_comicids, up_k, up_failed, up_runs>>

vars == <<evVars, dlVars, rsVars, lgVars, cfVars, pgVars, mdVars, arVars, lkVars, upVars>>

\* What an action of one part leaves alone: the variables of the other parts
NotEv == <<dlVars, rsVars, lgVars, cfVars, pgVars, mdVars, arVars, lkVars, upVars>>
NotDl == <<evVars, rsVars, lgVars, cfVars, pgVars, mdVars, arVars, lkVars, upVars>>
NotRs == <<evVars, dlVars, lgVars, cfVars, pgVars, mdVars, arVars, lkVars, upVars>>
NotLg == <<evVars, dlVars, rsVars, cfVars, pgVars, mdVars, arVars, lkVars, upVars>>
NotCf == <<evVars, dlVars, rsVars, lgVars, pgVars, mdVars, arVars, lkVars, upVars>>
NotPg == <<evVars, dlVars, rsVars, lgVars, cfVars, mdVars, arVars, lkVars, upVars>>
NotMd == <<evVars, dlVars, rsVars, lgVars, cfVars, pgVars, arVars, lkVars, upVars>>
NotAr == <<evVars, dlVars, rsVars, lgVars, cfVars, pgVars, mdVars, lkVars, upVars>>
NotLk == <<evVars, dlVars, rsVars, lgVars, cfVars, pgVars, mdVars, arVars, upVars>>
NotUp == <<evVars, dlVars, rsVars, lgVars, cfVars, pgVars, mdVars, arVars, lkVars>>

-----------------------------------------------------------------------------
(* Bounds *)

MaxHops == 3
MaxReqs == 3
MaxIds == 6
MaxChildren == 2
MaxDepth == 5
MaxBatch == 2
MaxRuns == 3
MaxIdentifiers == 2
MaxXorLen == 3
MaxKeyLen == 2
MaxPageLen == 41
MaxAuthors == 2
MaxPages == 2
MaxSiblings == 6
MaxIssues == 3
MaxUpdates == 3

-----------------------------------------------------------------------------
(* SourceResponse<T> and Request<T>                                        *)

Pending == [ok |-> "pending"]
Ok(v) == [ok |-> "ok", v |-> v]
Err(e) == [ok |-> "err", err |-> e]

None == [some |-> FALSE]
Some(x) == [some |-> TRUE, x |-> x]

\* SourceResponse::Value(v)
Value(v) == [kind |-> "Value", v |-> v]
\* SourceResponse::Request(r): r is the request of hop h of the chain
Request(h) == [kind |-> "Request", hop |-> h]

\* `request.requests` of hop h, in listed order
Requests(plan, h) == [i \in 1..plan[h] |-> <<h, i>>]

\* What the transport can answer to one request: a body, or a failure
\* (`send().await?` or `bytes().await?` returning Err).
Payloads == {"data", "garbage"}
Body(req, d) == [req |-> req, data |-> d]
TransportFailure == [req |-> <<0, 0>>, data |-> "failure"]

\* `request.transform` of hop h: None when a body cannot be parsed, otherwise
\* the next SourceResponse: the request of the next hop, or the final value,
\* which is built from the bodies it was given.
Transform(plan, h, bodies) ==
    IF \E i \in 1..Len(bodies) : bodies[i].data = "garbage"
    THEN None
    ELSE IF h < Len(plan) THEN Some(Request(h + 1)) ELSE Some(Value(bodies))

\* The response a source call returns for a chain
FirstResponse(plan) == IF Len(plan) = 0 THEN Value(<<>>) ELSE Request(1)

-----------------------------------------------------------------------------
(* ComicId, Metadata, Comic                                                 *)

\* Titles and ids are numbered: title 0 is `None`
NoMeta == [title |-> 0, identifiers |-> <<>>]

Issue(x) == [tag |-> "Issue", id |-> x, meta |-> NoMeta]
IssueWithMetadata(x, m) == [tag |-> "IssueWithMetadata", id |-> x, meta |-> m]
Other(x) == [tag |-> "Other", id |-> x, meta |-> NoMeta]
OtherWithMetadata(x, m) == [tag |-> "OtherWithMetadata", id |-> x, meta |-> m]
Series(x) == [tag |-> "Series", id |-> x, meta |-> NoMeta]

IsLeaf(c) == c.tag \in {"Issue", "IssueWithMetadata"}

\* source.name()
SourceName == "Example"

Identifier(src, x) == [source |-> src, id |-> x]

\* Metadata that came with an id (e.g. from a series listing), already
\* carrying an identifier of another database
EmbeddedMeta(x) == [title |-> 100 + x, identifiers |-> <<Identifier("Listing", x)>>]

\* What the source's metadata and pages requests evaluate to for an issue
FetchedMeta(x) == [title |-> x, identifiers |-> <<>>]
FetchedPages(x) == <<[url |-> x, file_format |-> "jpg"]>>

Comic(metadata, pages) == [metadata |-> metadata, pages |-> pages]

-----------------------------------------------------------------------------
(* metadata_from_comicid and comic_from_comicid                             *)

\* metadata.identifiers.push(Identifier { source: source.name(), id: id_str })
PushIdentifierReplacing(metadata, x) ==
    [metadata EXCEPT !.identifiers = <<Identifier(SourceName, x)>>]

PushIdentifier(metadata, x) ==
    [metadata EXCEPT !.identifiers = Append(@, Identifier(SourceName, x))]

\* `world` names the ids whose pages request and whose metadata request fail
MetadataFromComicid(world, c) ==
    IF c.tag = "Issue"
    THEN IF c.id \in world.meta_fail
         THEN Err("RequestError")
         ELSE Ok(PushIdentifier(FetchedMeta(c.id), c.id))
    ELSE Ok(PushIdentifier(c.meta, c.id))

ComicFromComicid(world, c) ==
    IF c.id \in world.pages_fail
    THEN Err("RequestError")
    ELSE LET m == MetadataFromComicid(world, c) IN
         IF m.ok = "err" THEN m ELSE Ok(Comic(m.v, FetchedPages(c.id)))

-----------------------------------------------------------------------------
(* comic_from_comicid and metadata_from_comicid, statement by statement     *)

\* What a source method and the evaluation of its response can come to:
\* the method returns Err; it returns a Value; it returns a Request that
\* evaluates to a value, that fails in transport, or whose transform
\* returns None.
Outcomes == {"source_err", "value", "fetched", "request_err", "parse_err"}

OutcomeError(o) ==
    IF o = "source_err" THEN Err("SourceError")
    ELSE IF o = "request_err" THEN Err("RequestError")
    ELSE Err("FailedResponseParse")

\* The entries of the history: a call of a source method, and the evaluation
\* of a Request it returned
Called(fn, x) == [kind |-> "call", fn |-> fn, id |-> x]
Requested(fn, x) == [kind |-> "request", fn |-> fn, id |-> x]

\* source.get_xxx(&client, &comicid)? and eval_source_response(..).await?
\* as they show in the history
Evaluation(fn, x, o) ==
    IF o \in {"source_err", "value"} THEN <<Called(fn, x)>>
    ELSE <<Called(fn, x), Requested(fn, x)>>

\* The identifiers a Metadata can already carry: the id of another database,
\* and the id this source knows the comic by
KnownIdentifiers == {Identifier("Listing", 7), Identifier(SourceName, 3)}

IdentifierLists == UNION {[1..n -> KnownIdentifiers] : n \in 0..MaxIdentifiers}

Metadatas == {[title |-> 5, identifiers |-> l] : l \in IdentifierLists}

\* The leaf ids comic_from_comicid is called with
ComicInputs == {Issue(1), Issue(2)} \cup {IssueWithMetadata(3, m) : m \in Metadatas}

CfInit ==
    /\ cf_id \in ComicInputs
    /\ \E po \in Outcomes, mo \in Outcomes,
          fm \in {m \in Metadatas : Len(m.identifiers) <= 1} :
         cf_world = [pages |-> po, meta |-> mo, fetched |-> fm]
    /\ cf_pc = "get_pages"
    /\ cf_pages = <<>>
    /\ cf_metadata = NoMeta
    /\ cf_calls = <<>>
    /\ cf_result = Pending

CfIdle ==
    /\ cf_id = Issue(1)
    /\ cf_world = [pages |-> "value", meta |-> "value", fetched |-> NoMeta]
    /\ cf_pc = "idle"
    /\ cf_pages = <<>>
    /\ cf_metadata = NoMeta
    /\ cf_calls = <<>>
    /\ cf_result = Pending

\* let pages_response = source.get_pages(&client, &comicid)?;
\* let pages = eval_source_response(pages_response).await?;
GetPages ==
    /\ cf_pc = "get_pages"
    /\ cf_calls' = cf_calls \o Evaluation("get_pages", cf_id.id, cf_world.pages)
    /\ IF cf_world.pages \in {"value", "fetched"}
       THEN /\ cf_pages' = FetchedPages(cf_id.id)
            /\ cf_pc' = "metadata"
            /\ UNCHANGED cf_result
       ELSE /\ cf_result' = OutcomeError(cf_world.pages)
            /\ cf_pc' = "done"
            /\ UNCHANGED cf_pages
    /\ UNCHANGED <<cf_id, cf_world, cf_metadata, NotCf>>

\* match comicid { ComicId::Issue(_) => .., ComicId::IssueWithMetadata(_, meta) => meta }
FetchesMetadataAlways(c) == TRUE

FetchesMetadata(c) == c.tag = "Issue"

\* ComicId::Issue(_): source.get_metadata(&client, &comicid)? and
\* eval_source_response(metadata_response).await?
GetMetadata ==
    /\ cf_pc = "metadata"
    /\ FetchesMetadata(cf_id)
    /\ cf_calls' = cf_calls \o Evaluation("get_metadata", cf_id.id, cf_world.meta)
    /\ IF cf_world.meta \in {"value", "fetched"}
       THEN /\ cf_metadata' = cf_world.fetched
            /\ cf_pc' = "push"
            /\ UNCHANGED cf_result
       ELSE /\ cf_result' = OutcomeError(cf_world.meta)
            /\ cf_pc' = "done"
            /\ UNCHANGED cf_metadata
    /\ UNCHANGED <<cf_id, cf_world, cf_pages, NotCf>>

\* ComicId::IssueWithMetadata(_, meta) => meta
UseEmbeddedMetadata ==
    /\ cf_pc = "metadata"
    /\ ~FetchesMetadata(cf_id)
    /\ cf_metadata' = cf_id.meta
    /\ cf_pc' = "push"
    /\ UNCHANGED <<cf_id, cf_world, cf_pages, cf_calls, cf_result, NotCf>>

\* metadata.identifiers.push(Identifier { source: source.name(), id: id_str }); Ok(metadata)
AddIdentifier ==
    /\ cf_pc = "push"
    /\ cf_metadata' = PushIdentifier(cf_metadata, cf_id.id)
    /\ cf_pc' = "build"
    /\ UNCHANGED <<cf_id, cf_world, cf_pages, cf_calls, cf_result, NotCf>>

\* Ok(Comic { pages, metadata, ..Default::default() })
BuildComic ==
    /\ cf_pc = "build"
    /\ cf_result' = Ok(Comic(cf_metadata, cf_pages))
    /\ cf_pc' = "done"
    /\ UNCHANGED <<cf_id, cf_world, cf_pages, cf_metadata, cf_calls, NotCf>>

-----------------------------------------------------------------------------
(* decrypt_page and OnlinePage::download_page                               *)

\* What a call comes to: it returns bytes, or it panics
Returned(v) == [kind |-> "returned", v |-> v]
Panicked(msg) == [kind |-> "panic", msg |-> msg]
NotRun == [kind |-> "none"]

\* v ^ k on u8, bit by bit
RECURSIVE XorBits(_, _, _)
XorBits(a, b, n) ==
    IF n = 0 THEN 0
    ELSE (((a % 2) + (b % 2)) % 2) + 2 * XorBits(a \div 2, b \div 2, n - 1)

ByteWidth == 8

XorByte(v, k) == XorBits(v, k, ByteWidth)

\* PageEncryptionScheme::XOR(key):
\* bytes.iter().zip(key.iter().cycle()).map(|(v, k)| v ^ k).collect()
\* The cycle of an empty key is empty, and zip ends with its shorter side.
XorPageNoCycle(bytes, key) ==
    [i \in 1..(IF Len(bytes) < Len(key) THEN Len(bytes) ELSE Len(key)) |->
        XorByte(bytes[i], key[i])]

XorPage(bytes, key) ==
    IF Len(key) = 0 THEN <<>>
    ELSE [i \in 1..Len(bytes) |-> XorByte(bytes[i], key[((i - 1) % Len(key)) + 1])]

\* The layout of a DCUniverseInfinite page: bytes[0..8] the size, bytes[8..24]
\* the initialization vector, bytes[24..] the image
SizeBytes == 8
HeaderBytes == 24
BlockBytes == 16

\* u64::from_le_bytes(tmp), and the bytes a size is written as
RECURSIVE from_le_bytes(_)
from_le_bytes(b) == IF b = <<>> THEN 0 ELSE Head(b) + 256 * from_le_bytes(Tail(b))

RECURSIVE LeBytes(_, _)
LeBytes(n, count) == IF count = 0 THEN <<>> ELSE <<n % 256>> \o LeBytes(n \div 256, count - 1)

to_le_bytes(n) == LeBytes(n, SizeBytes)

\* cbc_decryptor(.., NoPadding).decrypt(input, output, true): Err when the
\* input is no whole number of blocks; otherwise the blocks that fit into
\* the output buffer of `size` bytes are deciphered into it.
Decipher(b, iv) == XorByte(b, XorByte(iv[1], 165))

CbcDecrypt(iv, data, size) ==
    IF Len(data) % BlockBytes # 0 THEN Err("InvalidLength")
    ELSE LET fit == IF size < Len(data) THEN (size \div BlockBytes) * BlockBytes ELSE Len(data) IN
         Ok([i \in 1..fit |-> Decipher(data[i], iv)])

\* PageEncryptionScheme::DCUniverseInfinite(key)
DecryptDCUniverseInfinite(bytes) ==
    IF Len(bytes) < SizeBytes THEN Panicked("range end index 8 out of range")
    ELSE LET size == from_le_bytes(SubSeq(bytes, 1, SizeBytes)) IN
         IF size > Len(bytes) THEN Panicked("Size not correct for final image")
         ELSE IF Len(bytes) < HeaderBytes THEN Panicked("range end index 24 out of range")
         ELSE LET r == CbcDecrypt(SubSeq(bytes, SizeBytes + 1, HeaderBytes),
                                  SubSeq(bytes, HeaderBytes + 1, Len(bytes)), size) IN
              IF r.ok = "err"
              THEN Panicked("Could not decrypt image from DC Universe Infinite")
              ELSE Returned(r.v)

\* decrypt_page(bytes, enc), its XOR and DCUniverseInfinite arms
decrypt_page(bytes, enc) ==
    IF enc.scheme = "XOR" THEN Returned(XorPage(bytes, enc.key))
    ELSE DecryptDCUniverseInfinite(bytes)

\* The bytes of the model's pages and keys
PageBytes == {0, 1, 90, 255}

XorInputs == UNION {[1..n -> PageBytes] : n \in 0..MaxXorLen}
XorKeys == UNION {[1..n -> PageBytes] : n \in 0..MaxKeyLen}

\* The sizes a page can declare: around the lengths of the model's pages, and
\* sizes that need the higher bytes of the field
DeclaredSizes == (0..(MaxPageLen + 1)) \cup {256, 65537}

\* A page of n bytes that declares size d: the size field (cut off when the
\* page is shorter), then bytes of vector and image
FramedPage(n, d) == [i \in 1..n |-> IF i <= SizeBytes THEN to_le_bytes(d)[i] ELSE 90]

PgInit ==
    /\ \/ /\ pg_bytes \in XorInputs
          /\ \E k \in XorKeys : pg_enc = [scheme |-> "XOR", key |-> k]
       \/ /\ \E n \in 0..MaxPageLen, d \in DeclaredSizes : pg_bytes = FramedPage(n, d)
          /\ pg_enc = [scheme |-> "DCUniverseInfinite", key |-> <<>>]
    /\ pg_pc = "download"
    /\ pg_out = NotRun
    /\ pg_back = NotRun

PgIdle ==
    /\ pg_bytes = <<>>
    /\ pg_enc = [scheme |-> "XOR", key |-> <<>>]
    /\ pg_pc = "idle"
    /\ pg_out = NotRun
    /\ pg_back = NotRun

\* download_page: match &self.encryption { Some(enc) => decrypt_page(bytes, enc), .. }
DownloadPage ==
    /\ pg_pc = "download"
    /\ pg_out' = decrypt_page(pg_bytes, pg_enc)
    /\ pg_pc' = "done"
    /\ UNCHANGED <<pg_bytes, pg_enc, pg_back, NotPg>>

\* decrypt_page with the same XOR key on the bytes the first call returned
DecryptAgain ==
    /\ pg_pc = "done"
    /\ pg_enc.scheme = "XOR"
    /\ pg_back' = decrypt_page(pg_out.v, pg_enc)
    /\ pg_pc' = "again"
    /\ UNCHANGED <<pg_bytes, pg_enc, pg_out, NotPg>>

-----------------------------------------------------------------------------
(* Metadata, comicrack::export and comicrack::import                        *)

\* A String is the sequence of its characters
Str(chars) == chars

\* Metadata::default()
DefaultMetadata ==
    [title |-> None, authors |-> <<>>, publisher |-> None, series |-> None,
     issue_number |-> None, year |-> None, month |-> None, day |-> None,
     reading_direction |-> "LeftToRight", identifiers |-> <<>>,
     description |-> None, source |-> None]

AuthorTypes ==
    {"Writer", "Penciller", "Inker", "Colorist", "Letterer", "CoverArtist", "Editor", "Other"}

Author(name, author_type) == [name |-> name, author_type |-> author_type]

\* impl fmt::Display for AuthorType: the tag export writes for an author
AuthorTypeToString(t) ==
    CASE t = "Writer" -> Str(<<"W", "r", "i", "t", "e", "r">>)
      [] t = "Penciller" -> Str(<<"P", "e", "n", "c", "i", "l", "l", "e", "r">>)
      [] t = "Inker" -> Str(<<"I", "n", "k", "e", "r">>)
      [] t = "Colorist" -> Str(<<"C", "o", "l", "o", "r", "i", "s", "t">>)
      [] t = "Letterer" -> Str(<<"L", "e", "t", "t", "e", "r", "e", "r">>)
      [] t = "CoverArtist" -> Str(<<"C", "o", "v", "e", "r", "A", "r", "t", "i", "s", "t">>)
      [] t = "Editor" -> Str(<<"E", "d", "i", "t", "o", "r">>)
      [] OTHER -> Str(<<"O", "t", "h", "e", "r">>)

\* The letters of the ASCII alphabet
UpperAlphabet ==
    <<"A", "B", "C", "D", "E", "F", "G", "H", "I", "J", "K", "L", "M",
      "N", "O", "P", "Q", "R", "S", "T", "U", "V", "W", "X", "Y", "Z">>

LowerAlphabet ==
    <<"a", "b", "c", "d", "e", "f", "g", "h", "i", "j", "k", "l", "m",
      "n", "o", "p", "q", "r", "s", "t", "u", "v", "w", "x", "y", "z">>

\* char::to_ascii_lowercase
LowerChar(c) ==
    IF \E k \in 1..Len(UpperAlphabet) : UpperAlphabet[k] = c
    THEN LowerAlphabet[CHOOSE k \in 1..Len(UpperAlphabet) : UpperAlphabet[k] = c]
    ELSE c

to_ascii_lowercase(str) == [i \in 1..Len(str) |-> LowerChar(str[i])]

\* str.contains(pat)
Contains(str, pat) ==
    \E i \in 0..(Len(str) - Len(pat)) : SubSeq(str, i + 1, i + Len(pat)) = pat

\* impl From<String> for AuthorType
AuthorTypeFrom(str) ==
    LET lower == to_ascii_lowercase(str) IN
    IF Contains(lower, <<"c", "o", "v", "e", "r">>) THEN "CoverArtist"
    ELSE CASE lower = <<"w", "r", "i", "t", "e", "r">> -> "Writer"
           [] lower = <<"p", "e", "n", "c", "i", "l", "l", "e", "r">> -> "Penciller"
           [] lower \in {<<"i", "n", "k", "s">>, <<"i", "n", "k", "e", "r">>} -> "Inker"
           [] lower \in {<<"c", "o", "l", "o", "r", "s">>,
                         <<"c", "o", "l", "o", "r", "i", "s", "t">>} -> "Colorist"
           [] lower = <<"l", "e", "t", "t", "e", "r", "e", "r">> -> "Letterer"
           [] lower = <<"e", "d", "i", "t", "o", "r">> -> "Editor"
           [] OTHER -> "Other"

\* u32::to_string and str::parse::<u32>().ok()
Digits == <<"0", "1", "2", "3", "4", "5", "6", "7", "8", "9">>

RECURSIVE U32ToString(_)
U32ToString(n) ==
    IF n < 10 THEN <<Digits[n + 1]>> ELSE U32ToString(n \div 10) \o <<Digits[(n % 10) + 1]>>

DigitValue(c) == CHOOSE d \in 0..9 : Digits[d + 1] = c

RECURSIVE ParseDigits(_, _)
ParseDigits(str, acc) ==
    IF str = <<>> THEN acc ELSE ParseDigits(Tail(str), 10 * acc + DigitValue(Head(str)))

ParseU32(str) ==
    IF str # <<>> /\ \A i \in 1..Len(str) : \E d \in 1..10 : Digits[d] = str[i]
    THEN Some(ParseDigits(str, 0))
    ELSE None

\* An element of the document: <tag>text</tag>
Element(tag, text) == [tag |-> tag, text |-> text]

\* write_option: the element is written if the content is Some
WriteOption(tag, content) == IF content.some THEN <<Element(tag, content.x)>> ELSE <<>>

WriteOptionU32(tag, content) ==
    IF content.some THEN <<Element(tag, U32ToString(content.x))>> ELSE <<>>

\* for author in &metadata.authors { write_simple(w, author_type.to_string(), name) }
RECURSIVE WriteAuthors(_)
WriteAuthors(authors) ==
    IF authors = <<>> THEN <<>>
    ELSE <<Element(AuthorTypeToString(Head(authors).author_type), Head(authors).name)>>
         \o WriteAuthors(Tail(authors))

Tag(name) ==
    CASE name = "Title" -> Str(<<"T", "i", "t", "l", "e">>)
      [] name = "Series" -> Str(<<"S", "e", "r", "i", "e", "s">>)
      [] name = "Publisher" -> Str(<<"P", "u", "b", "l", "i", "s", "h", "e", "r">>)
      [] name = "Number" -> Str(<<"N", "u", "m", "b", "e", "r">>)
      [] name = "Year" -> Str(<<"Y", "e", "a", "r">>)
      [] name = "Month" -> Str(<<"M", "o", "n", "t", "h">>)
      [] name = "Day" -> Str(<<"D", "a", "y">>)

\* comicrack::export: the children of <ComicInfo>, in the order written
export(metadata) ==
    WriteOption(Tag("Title"), metadata.title)
    \o WriteOption(Tag("Series"), metadata.series)
    \o WriteOption(Tag("Publisher"), metadata.publisher)
    \o WriteOptionU32(Tag("Number"), metadata.issue_number)
    \o WriteOptionU32(Tag("Year"), metadata.year)
    \o WriteOptionU32(Tag("Month"), metadata.month)
    \o WriteOptionU32(Tag("Day"), metadata.day)
    \o WriteAuthors(metadata.authors)

\* The reader is configured with trim_whitespace(true): character data
\* reaches import without leading and trailing whitespace, and an element
\* without character data gives no Characters event.
RECURSIVE TrimStart(_)
TrimStart(str) == IF str # <<>> /\ Head(str) = " " THEN TrimStart(Tail(str)) ELSE str

RECURSIVE TrimEnd(_)
TrimEnd(str) ==
    IF str # <<>> /\ str[Len(str)] = " " THEN TrimEnd(SubSeq(str, 1, Len(str) - 1)) ELSE str

Trim(str) == TrimEnd(TrimStart(str))

\* The tags import pushes an author for
AuthorTags ==
    {AuthorTypeToString(t) :
        t \in {"Writer", "Penciller", "Inker", "Colorist", "Letterer", "CoverArtist", "Editor"}}

\* Ok(ReaderEvent::Characters(content)) => match current.as_str() { .. }
ImportCharacters(new, current, content) ==
    IF current = Tag("Title") THEN [new EXCEPT !.title = Some(content)]
    ELSE IF current = Tag("Series") THEN [new EXCEPT !.series = Some(content)]
    ELSE IF current = Tag("Publisher") THEN [new EXCEPT !.publisher = Some(content)]
    ELSE IF current = Tag("Number") THEN [new EXCEPT !.issue_number = ParseU32(content)]
    ELSE IF current = Tag("Year") THEN [new EXCEPT !.year = ParseU32(content)]
    ELSE IF current = Tag("Month") THEN [new EXCEPT !.month = ParseU32(content)]
    ELSE IF current = Tag("Day") THEN [new EXCEPT !.day = ParseU32(content)]
    ELSE IF current \in AuthorTags
    THEN [new EXCEPT !.authors = Append(@, Author(content, AuthorTypeFrom(current)))]
    ELSE new

RECURSIVE ImportFrom(_, _)
ImportFrom(new, elements) ==
    IF elements = <<>> THEN new
    ELSE LET e == Head(elements)
             content == Trim(e.text) IN
         ImportFrom(IF content = <<>> THEN new ELSE ImportCharacters(new, e.tag, content),
                    Tail(elements))

\* comicrack::import
import(elements) == ImportFrom(DefaultMetadata, elements)

\* The Metadata of the model: strings with and without surrounding blanks,
\* the empty string, numbers of one and of several digits, authors of every type
Titles == {None, Some(<<>>), Some(<<"M", "K">>), Some(<<" ", "M">>)}
Names == {<<"J", " ", "L">>}
AuthorInputs == {Author(n, t) : n \in Names, t \in AuthorTypes}
AuthorLists == UNION {[1..n -> AuthorInputs] : n \in 0..MaxAuthors}
Dates == {<<None, None, None>>, <<Some(2016), Some(4), Some(13)>>, <<Some(2016), None, None>>}

MetadataInputs ==
    {[DefaultMetadata EXCEPT !.title = t, !.series = sp, !.publisher = sp,
                             !.issue_number = nr, !.year = d[1], !.month = d[2],
                             !.day = d[3], !.authors = a] :
        t \in Titles, sp \in {None, Some(<<"M">>)}, nr \in {None, Some(0), Some(120)},
        d \in Dates, a \in AuthorLists}

MdInit ==
    /\ md_in \in MetadataInputs
    /\ md_pc = "export"
    /\ md_xml = <<>>
    /\ md_back = DefaultMetadata

MdIdle ==
    /\ md_in = DefaultMetadata
    /\ md_pc = "idle"
    /\ md_xml = <<>>
    /\ md_back = DefaultMetadata

\* metadata.comicrack(): export(&metadata)
ComicrackExport ==
    /\ md_pc = "export"
    /\ md_xml' = export(md_in)
    /\ md_pc' = "import"
    /\ UNCHANGED <<md_in, md_back, NotMd>>

\* Metadata::from_comicrack_str(..): import(source)
ComicrackImport ==
    /\ md_pc = "import"
    /\ md_back' = import(md_xml)
    /\ md_pc' = "done"
    /\ UNCHANGED <<md_in, md_xml, NotMd>>

-----------------------------------------------------------------------------
(* Comic::write and Comic::from_cbz_file                                    *)

\* Page { file_format, page_type }: a page to download, or a page already
\* stored in a container
UrlPage(file_format) == [file_format |-> file_format, page_type |-> "Url"]
ContainerPage(name, file_format) ==
    [file_format |-> file_format, page_type |-> "Container", name |-> name]

\* Comic::title: the title, or "UNKNOWN"
Title(comic) ==
    IF comic.metadata.title.some THEN comic.metadata.title.x
    ELSE <<"U", "N", "K", "N", "O", "W", "N">>

\* A file name, as Path::extension() takes it apart
FileName(stem, ext) == [stem |-> stem, ext |-> ext]

Extension(name) == IF name.ext = "" THEN None ELSE Some(name.ext)

\* format!("{} #{:0>3}.{}", self.title(), n, &page.file_format)
PageFileName(comic, n, page) == FileName(<<Title(comic), n>>, page.file_format)

\* x.download_page(&client): the data of page n
PageData(n) == [kind |-> "image", page |-> n]

\* serde_json::to_string(&self) and serde_json::from_str(&buffer).ok() on a Metadata
MetadataToJson(metadata) == [kind |-> "json", value |-> metadata]

MetadataFromJson(data) == IF data.kind = "json" THEN Some(data.value) ELSE None

\* Metadata::export_all
export_all(metadata) ==
    <<[name |-> FileName("comicinfo", "xml"), data |-> [kind |-> "xml", elements |-> export(metadata)]],
      [name |-> FileName("grawlix", "json"), data |-> MetadataToJson(metadata)]>>

\* Metadata::from_metadata_file
from_metadata_file(name, data) ==
    IF name = FileName("grawlix", "json") THEN MetadataFromJson(data)
    ELSE IF name = FileName("comicinfo", "xml")
    THEN Some(import(IF data.kind = "xml" THEN data.elements ELSE <<>>))
    ELSE None

\* The calls on a ComicFile
WriteFile(name, data) == [op |-> "write_file", name |-> name, data |-> data]
Finish == [op |-> "finish"]

IMAGE_EXTENSIONS == {"png", "jpg", "jpeg"}

\* The comics of the model: pages to download as images and as another
\* type, pages of a container; metadata that is default or filled
PageKinds == {UrlPage("jpg"), UrlPage("gif"), ContainerPage(FileName("old", "jpg"), "jpg")}

PageLists == UNION {[1..n -> PageKinds] : n \in 0..MaxPages}

ArchiveMetadatas ==
    {DefaultMetadata,
     [DefaultMetadata EXCEPT !.title = Some(<<"M", "K">>)],
     [DefaultMetadata EXCEPT !.title = Some(<<"M", "K">>), !.issue_number = Some(1),
                             !.authors = <<Author(<<"J">>, "Writer")>>,
                             !.identifiers = <<Identifier(SourceName, 1)>>]}

ArInit ==
    /\ \E m \in ArchiveMetadatas, p \in PageLists : ar_comic = Comic(m, p)
    /\ ar_format \in {"CBZ", "Dir"}
    /\ ar_pc = "open"
    /\ ar_n = 0
    /\ ar_sink = <<>>
    /\ ar_result = Pending
    /\ ar_read = Comic(DefaultMetadata, <<>>)

ArIdle ==
    /\ ar_comic = Comic(DefaultMetadata, <<>>)
    /\ ar_format = "CBZ"
    /\ ar_pc = "idle"
    /\ ar_n = 0
    /\ ar_sink = <<>>
    /\ ar_result = Pending
    /\ ar_read = Comic(DefaultMetadata, <<>>)

\* The call returns Err through a `?`
WriteReturnsErr(e) ==
    /\ ar_result' = Err(e)
    /\ ar_pc' = "done"

\* let path = self.format(template)?; let mut comic_file = new_comic_file(&path, comic_format)?;
NewComicFile ==
    /\ ar_pc = "open"
    /\ \/ /\ ar_pc' = "pages"
          /\ UNCHANGED ar_result
       \/ WriteReturnsErr("InvalidLocation")
    /\ UNCHANGED <<ar_comic, ar_format, ar_n, ar_sink, ar_read, NotAr>>

\* match &page.page_type { PageType::Url(x) => .., PageType::Container(_) => continue }
WritesPageAlways(page) == TRUE

WritesPage(page) == page.page_type = "Url"

\* One iteration of `for (n, page) in self.pages.iter().enumerate()`:
\* download_page unwraps its request and panics when it fails
WritePage ==
    /\ ar_pc = "pages"
    /\ ar_n < Len(ar_comic.pages)
    /\ LET page == ar_comic.pages[ar_n + 1] IN
         IF WritesPage(page)
         THEN \/ /\ ar_sink' = Append(ar_sink,
                                      WriteFile(PageFileName(ar_comic, ar_n, page), PageData(ar_n)))
                 /\ ar_n' = ar_n + 1
                 /\ UNCHANGED <<ar_pc, ar_result>>
              \/ /\ ar_sink' = Append(ar_sink,
                                      WriteFile(PageFileName(ar_comic, ar_n, page), PageData(ar_n)))
                 /\ WriteReturnsErr("Io")
                 /\ UNCHANGED ar_n
              \/ /\ ar_result' = [ok |-> "panic"]
                 /\ ar_pc' = "done"
                 /\ UNCHANGED <<ar_sink, ar_n>>
         ELSE /\ ar_n' = ar_n + 1
              /\ UNCHANGED <<ar_sink, ar_pc, ar_result>>
    /\ UNCHANGED <<ar_comic, ar_format, ar_read, NotAr>>

\* The page loop is over: self.metadata.export_all()?
ExportAll ==
    /\ ar_pc = "pages"
    /\ ar_n = Len(ar_comic.pages)
    /\ \/ /\ ar_pc' = "exports"
          /\ UNCHANGED ar_result
       \/ WriteReturnsErr("MetadataExport")
    /\ ar_n' = 0
    /\ UNCHANGED <<ar_comic, ar_format, ar_sink, ar_read, NotAr>>

\* One iteration of `for (name, data) in ..  { comic_file.write_file(&data.as_bytes(), name)?; }`
WriteExport ==
    /\ ar_pc = "exports"
    /\ ar_n < Len(export_all(ar_comic.metadata))
    /\ LET e == export_all(ar_comic.metadata)[ar_n + 1] IN
         ar_sink' = Append(ar_sink, WriteFile(e.name, e.data))
    /\ \/ /\ ar_n' = ar_n + 1
          /\ UNCHANGED <<ar_pc, ar_result>>
       \/ /\ WriteReturnsErr("Io")
          /\ UNCHANGED ar_n
    /\ UNCHANGED <<ar_comic, ar_format, ar_read, NotAr>>

\* comic_file.finish()?; Ok(())
FinishFile ==
    /\ ar_pc = "exports"
    /\ ar_n = Len(export_all(ar_comic.metadata))
    /\ ar_sink' = Append(ar_sink, Finish)
    /\ ar_pc' = "done"
    /\ \/ ar_result' = Ok("unit")
       \/ ar_result' = Err("Io")
    /\ UNCHANGED <<ar_comic, ar_format, ar_n, ar_read, NotAr>>

\* The entries of the zip archive a finished CBZ holds, in the order of by_index
ZipEntries == SelectSeq(ar_sink, LAMBDA c : c.op = "write_file")

\* Comic::from_file on the archive written: ZipArchive::new(file)? and Comic::default()
OpenArchive ==
    /\ ar_pc = "done"
    /\ ar_result = Ok("unit")
    /\ ar_format = "CBZ"
    /\ ar_pc' = "read"
    /\ ar_n' = 0
    /\ ar_read' = Comic(DefaultMetadata, <<>>)
    /\ UNCHANGED <<ar_comic, ar_format, ar_sink, ar_result, NotAr>>

\* The body of `for i in 0..zip.len()`:
\* if let Some(ext) = path.extension() { if IMAGE_EXTENSIONS.contains(..) { push } }
\* else if let Some(metadata) = Metadata::from_metadata_file(..) { comic.metadata = metadata }
ReadEntry(comic, entry) ==
    LET ext == Extension(entry.name) IN
    IF ext.some
    THEN IF ext.x \in IMAGE_EXTENSIONS
         THEN [comic EXCEPT !.pages = Append(@, ContainerPage(entry.name, ext.x))]
         ELSE comic
    ELSE LET m == from_metadata_file(entry.name, entry.data) IN
         IF m.some THEN [comic EXCEPT !.metadata = m.x] ELSE comic

ReadZipEntry ==
    /\ ar_pc = "read"
    /\ ar_n < Len(ZipEntries)
    /\ ar_read' = ReadEntry(ar_read, ZipEntries[ar_n + 1])
    /\ ar_n' = ar_n + 1
    /\ UNCHANGED <<ar_comic, ar_format, ar_pc, ar_sink, ar_result, NotAr>>

\* return Ok(comic)
ReadReturn ==
    /\ ar_pc = "read"
    /\ ar_n = Len(ZipEntries)
    /\ ar_pc' = "read_done"
    /\ UNCHANGED <<ar_comic, ar_format, ar_n, ar_sink, ar_result, ar_read, NotAr>>

-----------------------------------------------------------------------------
(* source_from_url, source_from_name and issue_id_match                     *)

\* A regular expression is a sequence of elements: a character class taken
\* once, once or more (+), or at most once (?), the parentheses of the capture
\* group, and the anchors ^ and $.
Elem(cls, c, q) == [kind |-> "char", cls |-> cls, c |-> c, q |-> q]
One(cls) == Elem(cls, "", "one")
Plus(cls) == Elem(cls, "", "plus")
OptLit(c) == Elem("lit", c, "opt")
L(chars) == [i \in 1..Len(chars) |-> Elem("lit", chars[i], "one")]
Open == [kind |-> "open"]
Close == [kind |-> "close"]
Start == [kind |-> "start"]
End == [kind |-> "end"]

LowerLetters == {LowerAlphabet[k] : k \in 1..Len(LowerAlphabet)}
UpperLetters == {UpperAlphabet[k] : k \in 1..Len(UpperAlphabet)}
DigitChars == {Digits[k] : k \in 1..Len(Digits)}

\* One character against a class: a literal, `.`, \d, \w, [^/]
CharMatches(e, c) ==
    CASE e.cls = "lit" -> c = e.c
      [] e.cls = "any" -> TRUE
      [] e.cls = "digit" -> c \in DigitChars
      [] e.cls = "word" -> c \in LowerLetters \cup UpperLetters \cup DigitChars \cup {"_"}
      [] e.cls = "notslash" -> c # "/"

\* The number of characters of text from position j on that the class takes
Run(e, text, j) ==
    LET ks == {k \in 0..(Len(text) - j + 1) : \A m \in 0..(k - 1) : CharMatches(e, text[j + m])}
    IN  CHOOSE k \in ks : \A l \in ks : l <= k

NoCapture == [set |-> FALSE, from |-> 0, to |-> 0]
NoMatch == [ok |-> FALSE, cap |-> NoCapture]

RECURSIVE MatchAt(_, _, _, _, _)
RECURSIVE TryCount(_, _, _, _, _, _, _)

\* The match of the elements re[i..] at position j of text: a quantifier
\* takes as many characters as it can and gives them back one by one
MatchAt(re, i, text, j, cap) ==
    IF i > Len(re) THEN [ok |-> TRUE, cap |-> cap]
    ELSE LET e == re[i] IN
      CASE e.kind = "open" -> MatchAt(re, i + 1, text, j, [cap EXCEPT !.from = j])
        [] e.kind = "close" -> MatchAt(re, i + 1, text, j, [cap EXCEPT !.to = j - 1, !.set = TRUE])
        [] e.kind = "start" -> IF j = 1 THEN MatchAt(re, i + 1, text, j, cap) ELSE NoMatch
        [] e.kind = "end" -> IF j = Len(text) + 1 THEN MatchAt(re, i + 1, text, j, cap) ELSE NoMatch
        [] e.kind = "char" ->
             LET n == Run(e, text, j) IN
             CASE e.q = "one" -> IF n >= 1 THEN MatchAt(re, i + 1, text, j + 1, cap) ELSE NoMatch
               [] e.q = "plus" -> TryCount(re, i, text, j, n, 1, cap)
               [] e.q = "opt" -> TryCount(re, i, text, j, IF n >= 1 THEN 1 ELSE 0, 0, cap)

TryCount(re, i, text, j, k, least, cap) ==
    IF k < least THEN NoMatch
    ELSE LET r == MatchAt(re, i + 1, text, j + k, cap) IN
         IF r.ok THEN r ELSE TryCount(re, i, text, j, k - 1, least, cap)

RECURSIVE FindFrom(_, _, _)

\* The leftmost match of re in text
FindFrom(re, text, j) ==
    IF j > Len(text) + 1 THEN NoMatch
    ELSE LET r == MatchAt(re, 1, text, j, NoCapture) IN
         IF r.ok THEN r ELSE FindFrom(re, text, j + 1)

\* Regex::is_match
is_match(re, text) == FindFrom(re, text, 1).ok

\* first_capture: re.captures(text)?.get(1)?.as_str().to_string()
first_capture(re, text) ==
    LET r == FindFrom(re, text, 1) IN
    IF r.ok /\ r.cap.set THEN Some(SubSeq(text, r.cap.from, r.cap.to)) ELSE None

\* GrawlixDownloadError::UrlNotSupported(url) and InvalidSourceName(name)
UrlNotSupported(url) == [kind |-> "UrlNotSupported", url |-> url]
InvalidSourceName(name) == [kind |-> "InvalidSourceName", name |-> name]

\* The patterns of source_from_url and their sources, in the order of the macro call
UrlTable ==
    << [pattern |-> L(<<"d", "c", "u", "n", "i", "v", "e", "r", "s", "e", "i", "n", "f", "i", "n",
        "i", "t", "e">>) \o <<One("any")>> \o L(<<"c", "o",
        "m">>),
        source |-> "DCUniverseInfinite"],
       [pattern |-> L(<<"f", "l", "i", "p", "p">>) \o <<One("any")>> \o L(<<"d",
        "k">>),
        source |-> "Flipp"],
       [pattern |-> L(<<"i", "z", "n", "e", "o">>) \o <<One("any")>> \o L(<<"c", "o",
        "m">>),
        source |-> "Izneo"],
       [pattern |-> L(<<"u", "n", "i", "v", "e", "r", "s", "e">>) \o <<One("any")>> \o L(<<"l",
        "e", "a", "g", "u", "e", "o", "f", "l", "e", "g", "e", "n", "d", "s">>) \o <<One("any")>>
        \o L(<<"c", "o", "m">>),
        source |-> "LeagueOfLegends"],
       [pattern |-> L(<<"m", "a", "n", "g", "a", "p", "l", "u", "s">>) \o <<One("any")>> \o
        L(<<"s", "h", "u", "e", "i", "s", "h", "a">>) \o <<One("any")>> \o L(<<"c", "o">>) \o
        <<One("any")>> \o L(<<"j", "p">>),
        source |-> "MangaPlus"],
       [pattern |-> L(<<"m", "a", "r", "v", "e", "l">>) \o <<One("any")>> \o L(<<"c", "o",
        "m">>),
        source |-> "Marvel"],
       [pattern |-> L(<<"w", "e", "b", "t", "o", "o", "n", "s">>) \o <<One("any")>> \o L(<<"c",
        "o", "m">>),
        source |-> "Webtoon"]>>

RECURSIVE match_re_last(_, _, _)
RECURSIVE match_re(_, _, _)

\* macro match_re: the patterns are tried in order and the first that
\* matches returns its source
match_re_last(url, table, k) ==
    IF k > Len(table) THEN Err(UrlNotSupported(url))
    ELSE LET later == match_re_last(url, table, k + 1) IN
         IF later.ok = "ok" THEN later
         ELSE IF is_match(table[k].pattern, url) THEN Ok(table[k].source) ELSE later

match_re(url, table, k) ==
    IF k > Len(table) THEN Err(UrlNotSupported(url))
    ELSE IF is_match(table[k].pattern, url) THEN Ok(table[k].source)
    ELSE match_re(url, table, k + 1)

source_from_url(url) == match_re(url, UrlTable, 1)

\* str::to_lowercase, on the ASCII names of the model
to_lowercase(str) == to_ascii_lowercase(str)

\* source_from_name: the match on the lowercased name
source_from_name(name) ==
    LET lower == to_lowercase(name) IN
    CASE lower = <<"d", "c">> \/ lower = <<"d", "c", "u", "n", "i", "v", "e", "r", "s", "e", "i",
        "n", "f", "i", "n", "i", "t", "e">> ->
            Ok("DCUniverseInfinite")
      [] lower = <<"f", "l", "i", "p", "p">> ->
            Ok("Flipp")
      [] lower = <<"i", "z", "n", "e", "o">> ->
            Ok("Izneo")
      [] lower = <<"l", "e", "a", "g", "u", "e", " ", "o", "f", " ", "l", "e", "g", "e", "n", "d",
        "s">> ->
            Ok("LeagueOfLegends")
      [] lower = <<"m", "a", "n", "g", "a", " ", "p", "l", "u",
        "s">> ->
            Ok("MangaPlus")
      [] lower = <<"m", "a", "r", "v", "e", "l">> ->
            Ok("Marvel")
      [] lower = <<"w", "e", "b", "t", "o", "o", "n">> ->
            Ok("Webtoon")
      [] OTHER -> Err(InvalidSourceName(name))

\* Source::name of each source
name(source) ==
    CASE source = "DCUniverseInfinite" -> <<"D", "C", " ", "U", "n", "i", "v", "e", "r", "s", "e",
        " ", "I", "n", "f", "i", "n", "i", "t", "e">>
      [] source = "Flipp" -> <<"F", "l", "i", "p", "p">>
      [] source = "Izneo" -> <<"I", "z", "n", "e", "o">>
      [] source = "LeagueOfLegends" -> <<"L", "e", "a", "g", "u", "e", " ", "o", "f", " ", "L",
        "e", "g", "e", "n", "d", "s">>
      [] source = "MangaPlus" -> <<"M", "a", "n", "g", "a", " ", "P", "l", "u", "s">>
      [] source = "Marvel" -> <<"M", "a", "r", "v", "e", "l">>
      [] source = "Webtoon" -> <<"W", "e", "b", "t", "o", "o", "n">>

\* The (pattern, id type) pairs of each source's id_from_url, in the order of
\* the issue_id_match! call
IdPairs(source) ==
    CASE source = "DCUniverseInfinite" ->
          <<[pattern |-> L(<<"c", "o", "m", "i", "c", "s", "/", "b", "o", "o", "k", "/">>) \o
              <<Plus("notslash")>> \o L(<<"/">>) \o <<Open, Plus("notslash"),
              Close>>,
                 idtype |-> "Issue"],
            [pattern |-> L(<<"c", "o", "m", "i", "c", "s", "/", "s", "e", "r", "i", "e", "s",
              "/">>) \o <<Plus("notslash")>> \o L(<<"/">>) \o <<Open, Plus("notslash"),
              Close>>,
                 idtype |-> "Series"]>>
      [] source = "Flipp" ->
          <<[pattern |-> L(<<"h", "t", "t", "p">>) \o <<OptLit("s")>> \o L(<<":", "/", "/", "r",
              "e", "a", "d", "e", "r">>) \o <<One("any")>> \o L(<<"f", "l", "i", "p", "p">>) \o
              <<One("any")>> \o L(<<"d", "k", "/", "h", "t", "m", "l", "5", "/", "r", "e", "a", "d",
              "e", "r", "/", "p", "r", "o", "d", "u", "c", "t", "i", "o", "n", "/", "d", "e", "f", "a",
              "u", "l", "t">>) \o <<One("any")>> \o L(<<"a", "s", "p", "x", "?", "p", "u", "b", "n",
              "a", "m", "e", "=", "&", "e", "d", "i", "d", "=">>) \o <<Open, Plus("notslash"),
              Close>>,
                 idtype |-> "Other"],
            [pattern |-> <<Start>> \o L(<<"h", "t", "t", "p">>) \o <<OptLit("s")>> \o L(<<":",
              "/", "/", "m", "a", "g", "a", "s", "i", "n", "e", "r">>) \o <<One("any")>> \o L(<<"f",
              "l", "i", "p", "p">>) \o <<One("any")>> \o L(<<"d", "k", "/", "f", "l", "i", "p", "p",
              "/", "w", "e", "b", "-", "a", "p", "p", "/", "#", "/", "p", "u", "b", "l", "i", "c", "a",
              "t", "i", "o", "n", "s", "/">>) \o <<Open, Plus("notslash"),
              Close>>,
                 idtype |-> "Series"]>>
      [] source = "Izneo" ->
          <<[pattern |-> <<Plus("word")>> \o L(<<"/">>) \o <<Plus("notslash")>> \o L(<<"/">>) \o
              <<Plus("notslash")>> \o L(<<"/">>) \o <<Plus("notslash")>> \o L(<<"/">>) \o
              <<Plus("any")>> \o L(<<"-">>) \o <<Open, Plus("digit"), Close>> \o L(<<"/", "r", "e", "a",
              "d">>),
                 idtype |-> "Issue"],
            [pattern |-> <<Plus("word")>> \o L(<<"/">>) \o <<Plus("notslash")>> \o L(<<"/">>) \o
              <<Plus("notslash")>> \o L(<<"/">>) \o <<Plus("any")>> \o L(<<"-">>) \o <<Open,
              Plus("digit"), Close, End>>,
                 idtype |-> "Series"]>>
      [] source = "LeagueOfLegends" ->
          <<[pattern |-> L(<<"/", "c", "o", "m", "i", "c", "/">>) \o <<Open, Plus("notslash")>> \o
              L(<<"/">>) \o <<Plus("notslash"), Close>> \o L(<<"/">>),
                 idtype |-> "Issue"],
            [pattern |-> L(<<"/", "c", "o", "m", "i", "c", "/">>) \o <<Open, Plus("notslash"),
              Close>>,
                 idtype |-> "Series"]>>
      [] source = "MangaPlus" ->
          <<[pattern |-> L(<<"v", "i", "e", "w", "e", "r", "/">>) \o <<Open, Plus("digit"),
              Close>>,
                 idtype |-> "Issue"],
            [pattern |-> L(<<"t", "i", "t", "l", "e", "s", "/">>) \o <<Open, Plus("digit"),
              Close>>,
                 idtype |-> "Series"]>>
      [] source = "Marvel" ->
          <<[pattern |-> L(<<"h", "t", "t", "p", "s", ":", "/", "/", "r", "e", "a", "d">>) \o
              <<One("any")>> \o L(<<"m", "a", "r", "v", "e", "l">>) \o <<One("any")>> \o L(<<"c", "o",
              "m", "/", "#", "/", "b", "o", "o", "k", "/">>) \o <<Open, Plus("digit"),
              Close>>,
                 idtype |-> "Issue"],
            [pattern |-> L(<<"i", "s", "s", "u", "e", "/">>) \o <<Open, Plus("digit")>> \o
              L(<<"/">>) \o <<Plus("any"), Close>>,
                 idtype |-> "Other"],
            [pattern |-> L(<<"s", "e", "r", "i", "e", "s", "/">>) \o <<Open, Plus("digit"),
              Close>>,
                 idtype |-> "Series"]>>
      [] source = "Webtoon" ->
          <<[pattern |-> <<Open, Plus("word")>> \o L(<<"/">>) \o <<Plus("notslash")>> \o
              L(<<"/">>) \o <<Plus("notslash")>> \o L(<<"/", "v", "i", "e", "w", "e", "r", "?">>) \o
              <<Plus("any")>> \o L(<<"e", "p", "i", "s", "o", "d", "e", "_", "n", "o", "=">>) \o
              <<Plus("digit"), Close>>,
                 idtype |-> "Issue"],
            [pattern |-> <<Open, Plus("word")>> \o L(<<"/">>) \o <<Plus("notslash")>> \o L(<<"/",
              "l", "i", "s", "t", "?", "t", "i", "t", "l", "e", "_", "n", "o", "=">>) \o
              <<Plus("digit"), Close>>,
                 idtype |-> "Series"]>>

\* Box::new(ComicId::$idtype)
IdOfType(idtype, x) ==
    CASE idtype = "Issue" -> Issue(x)
      [] idtype = "Other" -> Other(x)
      [] idtype = "Series" -> Series(x)

RECURSIVE issue_id_match_last(_, _, _)
RECURSIVE issue_id_match_internal(_, _, _)

\* issue_id_match_internal: the loop over the pairs from pair k on
issue_id_match_last(url, pairs, k) ==
    IF k > Len(pairs) THEN Err(UrlNotSupported(url))
    ELSE LET later == issue_id_match_last(url, pairs, k + 1) IN
         IF later.ok = "ok" THEN later
         ELSE IF is_match(pairs[k].pattern, url)
         THEN LET c == first_capture(pairs[k].pattern, url) IN
              IF c.some THEN Ok(IdOfType(pairs[k].idtype, c.x)) ELSE Err(UrlNotSupported(url))
         ELSE later

issue_id_match_internal(url, pairs, k) ==
    IF k > Len(pairs) THEN Err(UrlNotSupported(url))
    ELSE IF is_match(pairs[k].pattern, url)
    THEN LET c == first_capture(pairs[k].pattern, url) IN
         IF c.some THEN Ok(IdOfType(pairs[k].idtype, c.x)) ELSE Err(UrlNotSupported(url))
    ELSE issue_id_match_internal(url, pairs, k + 1)

\* Source::id_from_url
id_from_url(source, url) == issue_id_match_internal(url, IdPairs(source), 1)

\* The urls of the tests of the sources
MarvelIssueUrl ==
    <<"h", "t", "t", "p", "s", ":", "/", "/", "w", "w", "w", ".", "m", "a", "r",
    "v", "e", "l", ".", "c", "o", "m", "/", "c", "o", "m", "i", "c", "s", "/", "i", "s", "s",
    "u", "e", "/", "4", "2", "7", "6", "8", "/", "h", "a", "w", "k", "e", "y", "e", "_", "2",
    "0", "1", "2", "_", "1">>
MarvelSeriesUrl ==
    <<"h", "t", "t", "p", "s", ":", "/", "/", "w", "w", "w", ".", "m", "a",
    "r", "v", "e", "l", ".", "c", "o", "m", "/", "c", "o", "m", "i", "c", "s", "/", "s", "e",
    "r", "i", "e", "s", "/", "1", "6", "3", "0", "9", "/", "h", "a", "w", "k", "e", "y", "e",
    "_", "2", "0", "1", "2", "_", "-", "_", "2", "0", "1", "5">>
MarvelBookUrl ==
    <<"h", "t", "t", "p", "s", ":", "/", "/", "r", "e", "a", "d", ".", "m", "a",
    "r", "v", "e", "l", ".", "c", "o", "m", "/", "#", "/", "b", "o", "o", "k", "/", "3", "2",
    "5", "7">>
LeagueIssueUrl ==
    <<"h", "t", "t", "p", "s", ":", "/", "/", "u", "n", "i", "v", "e", "r", "s",
    "e", ".", "l", "e", "a", "g", "u", "e", "o", "f", "l", "e", "g", "e", "n", "d", "s", ".",
    "c", "o", "m", "/", "e", "n", "_", "u", "s", "/", "c", "o", "m", "i", "c", "/", "s", "t",
    "a", "r", "-", "g", "u", "a", "r", "d", "i", "a", "n", "/", "i", "s", "s", "u", "e", "-",
    "1", "/", "0", "/">>
LeagueSeriesUrl ==
    <<"h", "t", "t", "p", "s", ":", "/", "/", "u", "n", "i", "v", "e", "r",
    "s", "e", ".", "l", "e", "a", "g", "u", "e", "o", "f", "l", "e", "g", "e", "n", "d", "s",
    ".", "c", "o", "m", "/", "e", "n", "_", "u", "s", "/", "c", "o", "m", "i", "c", "/", "s",
    "t", "a", "r", "-", "g", "u", "a", "r", "d", "i", "a", "n">>

\* The urls looked up: those of the tests, urls of the other sources, urls that
\* no pattern or more than one pattern matches
LookupUrls ==
    {MarvelIssueUrl, MarvelSeriesUrl, MarvelBookUrl, LeagueIssueUrl, LeagueSeriesUrl,
     <<"h", "t", "t", "p", "s", ":", "/", "/", "m", "a", "n", "g", "a", "p", "l", "u", "s", ".",
     "s", "h", "u", "e", "i", "s", "h", "a", ".", "c", "o", ".", "j", "p", "/", "v", "i", "e",
     "w", "e", "r", "/", "1", "0", "0", "0", "4", "8", "6">>,
     <<"h", "t", "t", "p", "s", ":", "/", "/", "m", "a", "n", "g", "a", "p", "l", "u", "s", ".",
     "s", "h", "u", "e", "i", "s", "h", "a", ".", "c", "o", ".", "j", "p", "/", "t", "i", "t",
     "l", "e", "s", "/", "1", "0", "0", "0", "2", "0">>,
     <<"h", "t", "t", "p", "s", ":", "/", "/", "w", "w", "w", ".", "d", "c", "u", "n", "i", "v",
     "e", "r", "s", "e", "i", "n", "f", "i", "n", "i", "t", "e", ".", "c", "o", "m", "/", "c",
     "o", "m", "i", "c", "s", "/", "b", "o", "o", "k", "/", "b", "a", "t", "m", "a", "n", "-",
     "1", "/", "a", "b", "c", "-", "1", "2", "3", "/", "c">>,
     <<"h", "t", "t", "p", "s", ":", "/", "/", "w", "w", "w", ".", "d", "c", "u", "n", "i", "v",
     "e", "r", "s", "e", "i", "n", "f", "i", "n", "i", "t", "e", ".", "c", "o", "m", "/", "c",
     "o", "m", "i", "c", "s", "/", "s", "e", "r", "i", "e", "s", "/", "b", "a", "t", "m", "a",
     "n", "/", "d", "e", "f", "-", "4", "5", "6">>,
     <<"h", "t", "t", "p", "s", ":", "/", "/", "w", "w", "w", ".", "w", "e", "b", "t", "o", "o",
     "n", "s", ".", "c", "o", "m", "/", "e", "n", "/", "f", "a", "n", "t", "a", "s", "y", "/",
     "t", "o", "w", "e", "r", "/", "l", "i", "s", "t", "?", "t", "i", "t", "l", "e", "_", "n",
     "o", "=", "9", "5">>,
     <<"h", "t", "t", "p", "s", ":", "/", "/", "w", "w", "w", ".", "i", "z", "n", "e", "o", ".",
     "c", "o", "m", "/", "e", "n", "/", "m", "a", "n", "g", "a", "/", "s", "h", "o", "n", "e",
     "n", "/", "n", "a", "r", "u", "t", "o", "-", "1", "2", "3", "/", "r", "e", "a", "d">>,
     <<"h", "t", "t", "p", "s", ":", "/", "/", "r", "e", "a", "d", "e", "r", ".", "f", "l", "i",
     "p", "p", ".", "d", "k", "/", "h", "t", "m", "l", "5", "/", "r", "e", "a", "d", "e", "r",
     "/", "p", "r", "o", "d", "u", "c", "t", "i", "o", "n", "/", "d", "e", "f", "a", "u", "l",
     "t", ".", "a", "s", "p", "x", "?", "p", "u", "b", "n", "a", "m", "e", "=", "&", "e", "d",
     "i", "d", "=", "3", "1", "d", "2">>,
     <<"h", "t", "t", "p", "s", ":", "/", "/", "e", "x", "a", "m", "p", "l", "e", ".", "o", "r",
     "g", "/", "c", "o", "m", "i", "c", "s", "/", "1">>,
     <<"h", "t", "t", "p", "s", ":", "/", "/", "w", "w", "w", ".", "m", "a", "r", "v", "e", "l",
     ".", "c", "o", "m", "/", "c", "o", "m", "i", "c", "s", "/", "c", "h", "a", "r", "a", "c",
     "t", "e", "r", "s">>,
     <<"h", "t", "t", "p", "s", ":", "/", "/", "w", "w", "w", ".", "m", "a", "r", "v", "e", "l",
     ".", "c", "o", "m", "/", "c", "o", "m", "i", "c", "s", "/", "i", "s", "s", "u", "e", "/",
     "1", "/", "a", "?", "s", "e", "r", "i", "e", "s", "/", "2">>,
     <<"h", "t", "t", "p", "s", ":", "/", "/", "w", "w", "w", ".", "m", "a", "r", "v", "e", "l",
     ".", "c", "o", "m", "/", "?", "f", "r", "o", "m", "=", "w", "e", "b", "t", "o", "o", "n",
     "s", ".", "c", "o", "m">>,
     <<"h", "t", "t", "p", "s", ":", "/", "/", "f", "l", "i", "p", "p", "X", "d", "k", "/">>}

\* The names looked up: in several cases, aliases, Source::name of a source,
\* a name of no source
LookupNames ==
    {<<"M", "a", "r", "v", "e", "l">>,
     <<"M", "A", "R", "V", "E", "L">>,
     <<"m", "a", "r", "v", "e", "l">>,
     <<"D", "C">>,
     <<"d", "c", "u", "n", "i", "v", "e", "r", "s", "e", "i", "n", "f", "i", "n", "i", "t", "e">>,
     <<"D", "C", " ", "U", "n", "i", "v", "e", "r", "s", "e", " ", "I", "n", "f", "i", "n", "i",
        "t", "e">>,
     <<"L", "e", "a", "g", "u", "e", " ", "o", "f", " ", "L", "e", "g", "e", "n", "d", "s">>,
     <<"M", "a", "n", "g", "a", " ", "P", "l", "u", "s">>,
     <<"F", "l", "i", "p", "p">>,
     <<"I", "z", "n", "e", "o">>,
     <<"W", "e", "b", "t", "o", "o", "n">>,
     <<"C", "o", "m", "i", "x", "o", "l", "o", "g", "y">>,
     <<>>}

NotLookedUp == [ok |-> "none"]

LkInit ==
    /\ lk_url \in LookupUrls
    /\ lk_name \in LookupNames
    /\ lk_source = Pending
    /\ lk_id = Pending
    /\ lk_named = Pending
    /\ lk_back = Pending

LkIdle ==
    /\ lk_url = <<>>
    /\ lk_name = <<>>
    /\ lk_source = NotLookedUp
    /\ lk_id = NotLookedUp
    /\ lk_named = NotLookedUp
    /\ lk_back = NotLookedUp

\* get_source_from_url(&link, config): source_from_url(url)
SourceFromUrl ==
    /\ lk_source = Pending
    /\ lk_source' = source_from_url(lk_url)
    /\ UNCHANGED <<lk_url, lk_name, lk_id, lk_named, lk_back, NotLk>>

\* source.id_from_url(url)
IdFromUrl ==
    /\ lk_source.ok = "ok"
    /\ lk_id = Pending
    /\ lk_id' = id_from_url(lk_source.v, lk_url)
    /\ UNCHANGED <<lk_url, lk_name, lk_source, lk_named, lk_back, NotLk>>

\* get_source_from_name(name, config): source_from_name(name)
SourceFromName ==
    /\ lk_named = Pending
    /\ lk_named' = source_from_name(lk_name)
    /\ UNCHANGED <<lk_url, lk_name, lk_source, lk_id, lk_back, NotLk>>

\* update: create_new_updateseries stores source.name() in the update file,
\* and download_new_comics looks the source up with get_source_from_name(&series.source)
SourceFromOwnName ==
    /\ lk_source.ok = "ok"
    /\ lk_back = Pending
    /\ lk_back' = source_from_name(name(lk_source.v))
    /\ UNCHANGED <<lk_url, lk_name, lk_source, lk_id, lk_named, NotLk>>

-----------------------------------------------------------------------------
(* update: find_new_ids and download_new_comics                             *)

\* The ids get_all_ids gives for a series of n issues, oldest first
IssuesOfSeries(n) == [k \in 1..n |-> Issue(k)]

\* ComicId::inner
inner(id) == id.id

\* Vec::contains
VecContains(vec, x) == \E k \in 1..Len(vec) : vec[k] = x

\* find_new_ids: the ids of the series that downloaded_issues does not hold
find_new_ids(all_ids, downloaded_issues) ==
    SelectSeq(all_ids, LAMBDA x : ~VecContains(downloaded_issues, inner(x)))

\* `for id in comicids { series.downloaded_issues.push(id.inner().to_string()) }`
PushAll(downloaded_issues, comicids) ==
    downloaded_issues \o [k \in 1..Len(comicids) |-> inner(comicids[k])]

\* The update file holds one series that has not ended, added with no
\* downloaded issues and updated any number of times since
UpInit ==
    /\ up_ids \in {IssuesOfSeries(n) : n \in 0..MaxIssues}
    /\ up_file = <<>>
    /\ up_disk = {}
    /\ up_pc = "idle"
    /\ up_downloaded = <<>>
    /\ up_comicids = <<>>
    /\ up_k = 0
    /\ up_failed = {}
    /\ up_runs = 0

UpIdle ==
    /\ up_ids = <<>>
    /\ up_file = <<>>
    /\ up_disk = {}
    /\ up_pc = "off"
    /\ up_downloaded = <<>>
    /\ up_comicids = <<>>
    /\ up_k = 0
    /\ up_failed = {}
    /\ up_runs = 0

\* The source publishes one more issue of the series between two updates
NewIssue ==
    /\ up_pc = "idle"
    /\ Len(up_ids) < MaxIssues
    /\ up_ids' = IssuesOfSeries(Len(up_ids) + 1)
    /\ UNCHANGED <<up_file, up_disk, up_pc, up_downloaded, up_comicids, up_k, up_failed, up_runs, NotUp>>

\* update: load_updatefile, then download_new_comics up to the call of
\* download_and_write_comics; with no new id the series is skipped and the
\* update file is written back as it was loaded
UpdateFindNewIds ==
    /\ up_pc = "idle"
    /\ up_runs < MaxUpdates
    /\ up_runs' = up_runs + 1
    /\ up_downloaded' = up_file
    /\ up_comicids' = find_new_ids(up_ids, up_file)
    /\ up_k' = 0
    /\ up_failed' = {}
    /\ up_pc' = IF Len(up_comicids') = 0 THEN "idle" ELSE "download"
    /\ UNCHANGED <<up_ids, up_file, up_disk, NotUp>>

\* get_all_ids returns Err: find_new_ids(...).await? ends the update before
\* the update file is written
UpdateFindFails ==
    /\ up_pc = "idle"
    /\ up_runs < MaxUpdates
    /\ up_runs' = up_runs + 1
    /\ UNCHANGED <<up_ids, up_file, up_disk, up_pc, up_downloaded, up_comicids, up_k, up_failed, NotUp>>

\* download_and_write_comics, the next comic in order: Ok(x) and write_comic
\* returns Ok
ComicWritten ==
    /\ up_pc = "download"
    /\ up_k < Len(up_comicids)
    /\ up_disk' = up_disk \cup {inner(up_comicids[up_k + 1])}
    /\ up_k' = up_k + 1
    /\ UNCHANGED <<up_ids, up_file, up_pc, up_downloaded, up_comicids, up_failed, up_runs, NotUp>>

\* download_and_write_comics, the next comic in order: Err(e), which is
\* logged with info! and nothing is written
ComicFetchFails ==
    /\ up_pc = "download"
    /\ up_k < Len(up_comicids)
    /\ up_failed' = up_failed \cup {inner(up_comicids[up_k + 1])}
    /\ up_k' = up_k + 1
    /\ UNCHANGED <<up_ids, up_file, up_disk, up_pc, up_downloaded, up_comicids, up_runs, NotUp>>

\* download_and_write_comics, the next comic in order: Ok(x) and write_comic
\* returns Err, which `.unwrap()` turns into a panic: the update ends and
\* the update file is not written
ComicWriteFails ==
    /\ up_pc = "download"
    /\ up_k < Len(up_comicids)
    /\ up_pc' = "idle"
    /\ up_comicids' = <<>>
    /\ up_k' = 0
    /\ up_downloaded' = <<>>
    /\ UNCHANGED <<up_ids, up_file, up_disk, up_failed, up_runs, NotUp>>

\* download_new_comics after download_and_write_comics has returned: every
\* id of comicids is pushed; then update writes the update file
UpdatePushAndSave ==
    /\ up_pc = "download"
    /\ up_k = Len(up_comicids)
    /\ up_downloaded' = PushAll(up_downloaded, up_comicids)
    /\ up_file' = up_downloaded'
    /\ up_pc' = "idle"
    /\ UNCHANGED <<up_ids, up_disk, up_comicids, up_k, up_failed, up_runs, NotUp>>

-----------------------------------------------------------------------------
(* download_comics and download_and_write_comics                            *)

\* .buffered(5)
BufferSize == 5

\* The id at position i of a batch: plain issues and issues with metadata
LeafId(i) == IF i % 2 = 0 THEN IssueWithMetadata(i, EmbeddedMeta(i)) ELSE Issue(i)

DlInit ==
    /\ dl_mode \in {"try_collect", "for_each"}
    /\ \E n \in 0..MaxIds :
         /\ dl_ids = [i \in 1..n |-> LeafId(i)]
         /\ \E pf \in SUBSET (1..n) : \E mf \in {{}} \cup {{i} : i \in 1..n} :
              dl_world = [pages_fail |-> pf, meta_fail |-> mf]
    /\ dl_next = 0
    /\ dl_queue = <<>>
    /\ dl_ready = {}
    /\ dl_out = <<>>
    /\ dl_written = <<>>
    /\ dl_log = <<>>
    /\ dl_overtook = FALSE
    /\ dl_result = Pending

DlIdle ==
    /\ dl_mode = "idle"
    /\ dl_ids = <<>>
    /\ dl_world = [pages_fail |-> {}, meta_fail |-> {}]
    /\ dl_next = 0
    /\ dl_queue = <<>>
    /\ dl_ready = {}
    /\ dl_out = <<>>
    /\ dl_written = <<>>
    /\ dl_log = <<>>
    /\ dl_overtook = FALSE
    /\ dl_result = Pending

DlRunning == dl_mode \in {"try_collect", "for_each"} /\ dl_result = Pending

\* Buffered::poll_next first fills the queue from the id stream, and polls the
\* queued futures only when the queue is full or the ids are exhausted.
DlFilled == Len(dl_queue) >= BufferSize \/ dl_next = Len(dl_ids)

InQueue(i) == \E k \in 1..Len(dl_queue) : dl_queue[k] = i

\* Buffered::poll_next pushes a new future only while
\* in_progress_queue.len() < max
DlHasRoomAlways == TRUE

DlHasRoom == Len(dl_queue) < BufferSize

\* The buffer takes the next id and queues its comic_from_comicid future
DlPull ==
    /\ DlRunning
    /\ DlHasRoom
    /\ dl_next < Len(dl_ids)
    /\ dl_next' = dl_next + 1
    /\ dl_queue' = Append(dl_queue, dl_next + 1)
    /\ UNCHANGED <<dl_mode, dl_ids, dl_world, dl_ready, dl_out, dl_written, dl_log,
                   dl_overtook, dl_result, NotDl>>

\* A queued future runs to its end; the futures of the queue complete in any order
DlComplete(i) ==
    /\ DlRunning
    /\ DlFilled
    /\ InQueue(i)
    /\ i \notin dl_ready
    /\ dl_ready' = dl_ready \cup {i}
    /\ dl_overtook' = (dl_overtook \/ \E j \in 1..(i - 1) : InQueue(j) /\ j \notin dl_ready)
    /\ UNCHANGED <<dl_mode, dl_ids, dl_world, dl_next, dl_queue, dl_out, dl_written, dl_log,
                   dl_result, NotDl>>

\* The futures whose output the buffer may yield next: `buffered` yields in
\* push order, so only the head of the queue, once it has completed.
NextReadyUnordered(queue, ready) == {i \in ready : \E k \in 1..Len(queue) : queue[k] = i}

NextReady(queue, ready) ==
    IF Len(queue) > 0 /\ Head(queue) \in ready THEN {Head(queue)} ELSE {}

Without(queue, i) == SelectSeq(queue, LAMBDA j : j # i)

\* try_collect: Ok(comic) is pushed to the Vec, the first Err ends the call
\* and drops the stream with the futures still queued.
TryCollectItem(i, r) ==
    IF r.ok = "ok"
    THEN /\ dl_out' = Append(dl_out, r.v)
         /\ dl_queue' = Without(dl_queue, i)
         /\ dl_ready' = dl_ready \ {i}
         /\ UNCHANGED dl_result
    ELSE /\ dl_result' = r
         /\ dl_queue' = <<>>
         /\ dl_ready' = {}
         /\ UNCHANGED dl_out

\* for_each: Ok(x) => write_comic(..).await.unwrap(), Err(e) => info!(..)
ForEachItem(i, r) ==
    /\ dl_queue' = Without(dl_queue, i)
    /\ dl_ready' = dl_ready \ {i}
    /\ IF r.ok = "ok"
       THEN \/ /\ dl_written' = Append(dl_written, r.v)
               /\ UNCHANGED <<dl_log, dl_result>>
            \/ /\ dl_result' = Err("panic")
               /\ UNCHANGED <<dl_written, dl_log>>
       ELSE /\ dl_log' = Append(dl_log, i)
            /\ UNCHANGED <<dl_written, dl_result>>

\* The buffer yields an output and the consumer of the stream handles it
DlYield ==
    /\ DlRunning
    /\ DlFilled
    /\ \E i \in NextReady(dl_queue, dl_ready) :
         LET r == ComicFromComicid(dl_world, dl_ids[i]) IN
           \/ /\ dl_mode = "try_collect"
              /\ TryCollectItem(i, r)
              /\ UNCHANGED <<dl_written, dl_log>>
           \/ /\ dl_mode = "for_each"
              /\ ForEachItem(i, r)
              /\ UNCHANGED dl_out
    /\ UNCHANGED <<dl_mode, dl_ids, dl_world, dl_next, dl_overtook, NotDl>>

\* The stream has ended: try_collect returns Ok(vec), for_each returns
DlFinish ==
    /\ DlRunning
    /\ dl_next = Len(dl_ids)
    /\ dl_queue = <<>>
    /\ dl_result' = Ok(dl_out)
    /\ UNCHANGED <<dl_mode, dl_ids, dl_world, dl_next, dl_queue, dl_ready, dl_out, dl_written,
                   dl_log, dl_overtook, NotDl>>

-----------------------------------------------------------------------------
(* get_all_ids                                                              *)

SourceCall(fn, x) == [fn |-> fn, id |-> x]

Resolved(res, calls) == [res |-> res, calls |-> calls]

RECURSIVE GetAllIds(_, _, _)

\* ComicId::Issue(_) => vec![comicid], ComicId::IssueWithMetadata(..) => vec![comicid]
TerminalStripped(c) == <<Issue(c.id)>>

Terminal(c) == <<c>>

\* get_all_ids(source, client, new_id).await? on the id get_correct_id returned
CorrectedUnresolved(world, new_id, fuel) == Resolved(Ok(<<new_id>>), <<>>)

Corrected(world, new_id, fuel) == GetAllIds(world, new_id, fuel)

\* match &new_ids[..] { [ComicId::Issue(x)] => vec![IssueWithMetadata(x, meta)], _ => new_ids }
RetagAnySingle(new_ids, meta) ==
    IF Len(new_ids) = 1
    THEN <<IssueWithMetadata(new_ids[1].id, meta)>>
    ELSE new_ids

Retag(new_ids, meta) ==
    IF Len(new_ids) = 1 /\ new_ids[1].tag = "Issue"
    THEN <<IssueWithMetadata(new_ids[1].id, meta)>>
    ELSE new_ids

RECURSIVE Concat(_)
\* for id in evaluated_ids { result.append(&mut id?) }: the first Err in the
\* order of the Vec is returned, otherwise the concatenation.
Concat(evaluated) ==
    IF evaluated = <<>> THEN Ok(<<>>)
    ELSE IF Head(evaluated).ok = "err" THEN Head(evaluated)
    ELSE LET rest == Concat(Tail(evaluated)) IN
         IF rest.ok = "err" THEN rest ELSE Ok(Head(evaluated).v \o rest.v)

RECURSIVE CallsOf(_)
CallsOf(resolved) ==
    IF resolved = <<>> THEN <<>> ELSE Head(resolved).calls \o CallsOf(Tail(resolved))

\* get_all_ids on `c`, with what the source answers in `world`; `fuel` bounds
\* the depth of the recursion (a source that keeps answering with ids to
\* resolve makes the code recurse without end: "unbounded").
GetAllIds(world, c, fuel) ==
    IF IsLeaf(c) THEN Resolved(Ok(Terminal(c)), <<>>)
    ELSE IF fuel = 0 THEN Resolved(Err("unbounded"), <<>>)
    ELSE IF c.tag = "Other" THEN
        LET new_id == world.correct[c.id]
            call == <<SourceCall("get_correct_id", c.id)>> IN
        IF new_id.ok = "err" THEN Resolved(new_id, call)
        ELSE LET r == Corrected(world, new_id.v, fuel - 1) IN
             Resolved(r.res, call \o r.calls)
    ELSE IF c.tag = "OtherWithMetadata" THEN
        LET r == GetAllIds(world, Other(c.id), fuel - 1) IN
        IF r.res.ok = "err" THEN r
        ELSE Resolved(Ok(Retag(r.res.v, c.meta)), r.calls)
    ELSE \* Series
        LET new_ids == world.series[c.id]
            call == <<SourceCall("get_series_ids", c.id)>> IN
        IF new_ids.ok = "err" THEN Resolved(new_ids, call)
        ELSE LET evaluated == [i \in 1..Len(new_ids.v) |->
                                   GetAllIds(world, new_ids.v[i], fuel - 1)] IN
             Resolved(Concat([i \in 1..Len(evaluated) |-> evaluated[i].res]),
                      call \o CallsOf(evaluated))

\* What get_correct_id can evaluate to
CorrectAnswers(x) ==
    IF x = 10
    THEN {Err("RequestError"), Ok(Issue(1)), Ok(IssueWithMetadata(2, EmbeddedMeta(2))),
          Ok(Other(11)), Ok(Series(21))}
    ELSE {Err("FailedResponseParse"), Ok(Issue(2)), Ok(Series(21)), Ok(Other(10))}

\* What get_series_ids can evaluate to: the outer series lists any children,
\* the inner one a few fixed listings
ChildKinds == {Issue(1), Other(10), OtherWithMetadata(10, EmbeddedMeta(10)), Series(21)}

\* A series of more issues than the buffer holds
LongSeries == [i \in 1..MaxSiblings |-> Issue(i)]

SeriesAnswers(x) ==
    IF x = 20
    THEN {Err("RequestError"), Ok(LongSeries)}
         \cup {Ok(l) : l \in UNION {[1..n -> ChildKinds] : n \in 0..MaxChildren}}
    ELSE {Err("RequestError"), Ok(<<>>), Ok(<<Issue(3)>>),
          Ok(<<Issue(3), OtherWithMetadata(11, EmbeddedMeta(11))>>),
          Ok(<<Other(11), Issue(3)>>)}

ResolveInputs ==
    {Issue(1), IssueWithMetadata(2, EmbeddedMeta(2)), Other(10), Other(11),
     OtherWithMetadata(10, EmbeddedMeta(10)), Series(20), Series(21)}

NoAgain == [k |-> 0, res |-> Pending, calls |-> <<>>]

RsInit ==
    /\ \E c10 \in CorrectAnswers(10), c11 \in CorrectAnswers(11),
          s20 \in SeriesAnswers(20), s21 \in SeriesAnswers(21) :
         rs_world = [correct |-> (10 :> c10) @@ (11 :> c11),
                     series |-> (20 :> s20) @@ (21 :> s21)]
    /\ rs_input \in ResolveInputs
    /\ rs_pc = "call"
    /\ rs_children = <<>>
    /\ rs_next = 0
    /\ rs_queue = <<>>
    /\ rs_ready = {}
    /\ rs_evaluated = <<>>
    /\ rs_calls = <<>>
    /\ rs_overtook = FALSE
    /\ rs_result = Pending
    /\ rs_again = NoAgain

RsIdle ==
    /\ rs_world = [correct |-> <<>>, series |-> <<>>]
    /\ rs_input = Issue(1)
    /\ rs_pc = "idle"
    /\ rs_children = <<>>
    /\ rs_next = 0
    /\ rs_queue = <<>>
    /\ rs_ready = {}
    /\ rs_evaluated = <<>>
    /\ rs_calls = <<>>
    /\ rs_overtook = FALSE
    /\ rs_result = Pending
    /\ rs_again = NoAgain

\* get_all_ids on an id that is not a Series: the match arm runs to its end
GetAllIdsCall ==
    /\ rs_pc = "call"
    /\ rs_input.tag # "Series"
    /\ LET r == GetAllIds(rs_world, rs_input, MaxDepth) IN
         /\ rs_result' = r.res
         /\ rs_calls' = r.calls
    /\ rs_pc' = "done"
    /\ UNCHANGED <<rs_world, rs_input, rs_children, rs_next, rs_queue, rs_ready, rs_evaluated,
                   rs_overtook, rs_again, NotRs>>

\* ComicId::Series(_): eval_source_response(source.get_series_ids(..)?).await?
GetSeriesIds ==
    /\ rs_pc = "call"
    /\ rs_input.tag = "Series"
    /\ LET new_ids == rs_world.series[rs_input.id] IN
         IF new_ids.ok = "err"
         THEN /\ rs_result' = new_ids
              /\ rs_pc' = "done"
              /\ UNCHANGED rs_children
         ELSE /\ rs_children' = new_ids.v
              /\ rs_pc' = "stream"
              /\ UNCHANGED rs_result
    /\ rs_calls' = <<SourceCall("get_series_ids", rs_input.id)>>
    /\ UNCHANGED <<rs_world, rs_input, rs_next, rs_queue, rs_ready, rs_evaluated,
                   rs_overtook, rs_again, NotRs>>

RsFilled == Len(rs_queue) >= BufferSize \/ rs_next = Len(rs_children)

\* Buffered::poll_next pushes a new future only while
\* in_progress_queue.len() < max
SeriesHasRoomAlways == TRUE

SeriesHasRoom == Len(rs_queue) < BufferSize

\* The buffer takes the next child and queues its get_all_ids future
SeriesPull ==
    /\ rs_pc = "stream"
    /\ SeriesHasRoom
    /\ rs_next < Len(rs_children)
    /\ rs_next' = rs_next + 1
    /\ rs_queue' = Append(rs_queue, rs_next + 1)
    /\ UNCHANGED <<rs_world, rs_input, rs_pc, rs_children, rs_ready, rs_evaluated, rs_calls,
                   rs_overtook, rs_result, rs_again, NotRs>>

\* The resolution of one queued child runs to its end, in any order
SeriesComplete(i) ==
    /\ rs_pc = "stream"
    /\ RsFilled
    /\ \E k \in 1..Len(rs_queue) : rs_queue[k] = i
    /\ i \notin rs_ready
    /\ rs_ready' = rs_ready \cup {i}
    /\ rs_calls' = rs_calls \o GetAllIds(rs_world, rs_children[i], MaxDepth - 1).calls
    /\ rs_overtook' = (rs_overtook \/ \E k \in 1..Len(rs_queue) :
                                        rs_queue[k] < i /\ rs_queue[k] \notin rs_ready)
    /\ UNCHANGED <<rs_world, rs_input, rs_pc, rs_children, rs_next, rs_queue, rs_evaluated,
                   rs_result, rs_again, NotRs>>

\* .collect::<Vec<Result<Vec<ComicId>>>>(): every item of the stream is
\* pushed, an Err like an Ok
CollectOk(evaluated, r) == IF r.ok = "ok" THEN Append(evaluated, r) ELSE evaluated

Collect(evaluated, r) == Append(evaluated, r)

\* The buffer yields a child's result and collect pushes it
SeriesYield ==
    /\ rs_pc = "stream"
    /\ RsFilled
    /\ \E i \in NextReady(rs_queue, rs_ready) :
         /\ rs_evaluated' = Collect(rs_evaluated,
                                    GetAllIds(rs_world, rs_children[i], MaxDepth - 1).res)
         /\ rs_queue' = Without(rs_queue, i)
         /\ rs_ready' = rs_ready \ {i}
    /\ UNCHANGED <<rs_world, rs_input, rs_pc, rs_children, rs_next, rs_calls, rs_overtook,
                   rs_result, rs_again, NotRs>>

\* The stream has ended: the loop over evaluated_ids builds the result
SeriesConcat ==
    /\ rs_pc = "stream"
    /\ rs_next = Len(rs_children)
    /\ rs_queue = <<>>
    /\ rs_result' = Concat(rs_evaluated)
    /\ rs_pc' = "done"
    /\ UNCHANGED <<rs_world, rs_input, rs_children, rs_next, rs_queue, rs_ready, rs_evaluated,
                   rs_calls, rs_overtook, rs_again, NotRs>>

\* The ids get_all_ids returned, when it returned Ok
ResultIds == IF rs_result.ok = "ok" THEN rs_result.v ELSE <<>>

\* get_all_ids is called again on one id of the result it returned
ResolveAgain(k) ==
    /\ rs_pc = "done"
    /\ LET r == GetAllIds(rs_world, rs_result.v[k], MaxDepth) IN
         rs_again' = [k |-> k, res |-> r.res, calls |-> r.calls]
    /\ rs_pc' = "again"
    /\ UNCHANGED <<rs_world, rs_input, rs_children, rs_next, rs_queue, rs_ready, rs_evaluated,
                   rs_calls, rs_overtook, rs_result, NotRs>>

-----------------------------------------------------------------------------
(* get_comics, write_comics, write_comic and setup_ctrlc                    *)

\* A file that does not exist, and a file with its text
Absent == [exists |-> FALSE, text |-> [kind |-> "none", list |-> <<>>]]
File(text) == [exists |-> TRUE, text |-> text]

\* The text of a file just created, with nothing written to it
EmptyText == [kind |-> "empty", list |-> <<>>]

\* serde_json::to_string(rest) and serde_json::from_str: Comic derives
\* Serialize and Deserialize with every field kept; a text that is no JSON
\* list (an empty file) does not parse.
to_string(comics) == [kind |-> "json", list |-> comics]

from_str_or_default(text) == Ok(<<>>)

from_str(text) == IF text.kind = "json" THEN Ok(text.list) ELSE Err("parse")

\* The comic at position i of the batch, and comic.format(&output_template)
BatchComic(i) == Comic(PushIdentifier(FetchedMeta(i), i), FetchedPages(i))
PathOf(comic) == comic.metadata.title

NoPersist == [set |-> FALSE, k |-> 0, done |-> 0, rest |-> <<>>]

LgInit ==
    /\ fs_ledger = Absent
    /\ \E n \in 1..MaxBatch : lg_batch = [i \in 1..n |-> BatchComic(i)]
    /\ fs_out = [p \in 1..MaxBatch |-> "absent"]
    /\ cfg_overwrite \in BOOLEAN
    /\ cfg_format \in {"CBZ", "Dir"}
    /\ run_no = 0
    /\ m_pc = "off"
    /\ m_use_progress = FALSE
    /\ m_comics = <<>>
    /\ m_i = 0
    /\ progress = 0
    /\ m_discovered = FALSE
    /\ m_remove_failed = FALSE
    /\ m_start_ledger = Absent
    /\ h_pc = "none"
    /\ h_rest = <<>>
    /\ h_k = 0
    /\ h_log = <<>>
    /\ lg_persist = NoPersist
    /\ lg_restores = 0
    /\ lg_remove_failures = 0
    /\ lg_write_failed = FALSE

LgIdle ==
    /\ fs_ledger = Absent
    /\ lg_batch = <<>>
    /\ fs_out = <<>>
    /\ cfg_overwrite = FALSE
    /\ cfg_format = "CBZ"
    /\ run_no = 0
    /\ m_pc = "idle"
    /\ m_use_progress = FALSE
    /\ m_comics = <<>>
    /\ m_i = 0
    /\ progress = 0
    /\ m_discovered = FALSE
    /\ m_remove_failed = FALSE
    /\ m_start_ledger = Absent
    /\ h_pc = "none"
    /\ h_rest = <<>>
    /\ h_k = 0
    /\ h_log = <<>>
    /\ lg_persist = NoPersist
    /\ lg_restores = 0
    /\ lg_remove_failures = 0
    /\ lg_write_failed = FALSE

\* The program is started
RunStart ==
    /\ m_pc = "off"
    /\ run_no < MaxRuns
    /\ run_no' = run_no + 1
    /\ m_use_progress' \in BOOLEAN
    /\ m_pc' = "get_comics"
    /\ m_comics' = <<>>
    /\ m_i' = 0
    /\ progress' = 0
    /\ m_discovered' = FALSE
    /\ m_remove_failed' = FALSE
    /\ m_start_ledger' = fs_ledger
    /\ h_pc' = "none"
    /\ h_rest' = <<>>
    /\ h_k' = 0
    /\ h_log' = <<>>
    /\ lg_persist' = NoPersist
    /\ UNCHANGED <<fs_ledger, fs_out, cfg_overwrite, cfg_format, lg_batch, lg_restores,
                   lg_remove_failures, lg_write_failed, NotLg>>

\* if config.use_progress_file && progress_file.exists()
LedgerBranch == m_use_progress /\ fs_ledger.exists

\* get_comics, first branch: read_to_string(PROGRESS_FILE)? and from_str(..).unwrap().
\* A failed read returns Err and a text that does not parse panics: the run
\* ends there, the file stays.
GetComicsRead ==
    /\ m_pc = "get_comics"
    /\ LedgerBranch
    /\ \/ /\ m_pc' = "off"
          /\ UNCHANGED <<m_comics, lg_restores>>
       \/ LET parsed == from_str(fs_ledger.text) IN
            IF parsed.ok = "ok"
            THEN /\ m_comics' = parsed.v
                 /\ m_pc' = "remove"
                 /\ lg_restores' = lg_restores + 1
            ELSE /\ m_pc' = "off"
                 /\ UNCHANGED <<m_comics, lg_restores>>
    /\ UNCHANGED <<fs_ledger, fs_out, cfg_overwrite, cfg_format, lg_batch, run_no, m_use_progress,
                   m_i, progress, m_discovered, m_remove_failed, m_start_ledger, h_pc, h_rest,
                   h_k, h_log, lg_persist, lg_remove_failures, lg_write_failed, NotLg>>

\* match std::fs::remove_file(PROGRESS_FILE) { Ok(_) => (), Err(_) => error!(..) }; Ok(comics)
RemoveLedgerSkipped ==
    /\ UNCHANGED <<fs_ledger, m_remove_failed, lg_remove_failures>>

RemoveLedger ==
    \/ /\ fs_ledger' = Absent
       /\ UNCHANGED <<m_remove_failed, lg_remove_failures>>
    \/ /\ m_remove_failed' = TRUE
       /\ lg_remove_failures' = lg_remove_failures + 1
       /\ UNCHANGED fs_ledger

GetComicsRemove ==
    /\ m_pc = "remove"
    /\ RemoveLedger
    /\ m_pc' = "write_comics"
    /\ UNCHANGED <<fs_out, cfg_overwrite, cfg_format, lg_batch, run_no, m_use_progress, m_comics,
                   m_i, progress, m_discovered, m_start_ledger, h_pc, h_rest, h_k, h_log, lg_persist,
                   lg_restores, lg_write_failed, NotLg>>

\* get_comics, else branch: get_all_links and load_inputs
GetComicsDiscover ==
    /\ m_pc = "get_comics"
    /\ ~LedgerBranch
    /\ m_comics' = lg_batch
    /\ m_discovered' = TRUE
    /\ m_pc' = "write_comics"
    /\ UNCHANGED <<fs_ledger, fs_out, cfg_overwrite, cfg_format, lg_batch, run_no, m_use_progress,
                   m_i, progress, m_remove_failed, m_start_ledger, h_pc, h_rest, h_k, h_log,
                   lg_persist, lg_restores, lg_remove_failures, lg_write_failed, NotLg>>

\* download: if comics.len() > 0 { write_comics(..) }; write_comics: the
\* progress counter, and setup_ctrlc if config.use_progress_file
WriteComicsStart ==
    /\ m_pc = "write_comics"
    /\ IF Len(m_comics) = 0
       THEN /\ m_pc' = "returned"
            /\ UNCHANGED h_pc
       ELSE /\ m_pc' = "loop"
            /\ h_pc' = IF m_use_progress THEN "waiting" ELSE "none"
    /\ progress' = 0
    /\ m_i' = 0
    /\ UNCHANGED <<fs_ledger, fs_out, cfg_overwrite, cfg_format, lg_batch, run_no, m_use_progress,
                   m_comics, m_discovered, m_remove_failed, m_start_ledger, h_rest, h_k, h_log,
                   lg_persist, lg_restores, lg_remove_failures, lg_write_failed, NotLg>>

\* The main task is in the loop of write_comics
InLoop == m_pc \in {"loop", "writing", "incr"}

\* The comic the loop is at
Current == m_comics[m_i + 1]

\* The comics whose write_comic has returned
Completed == IF m_pc = "incr" THEN m_i + 1 ELSE m_i

\* write_comic: the path, the check `!config.overwrite && Path::new(&path).exists()`,
\* and new_comic_file, which creates (truncates) the output
WriteComicCheck ==
    /\ m_pc = "loop"
    /\ m_i < Len(m_comics)
    /\ IF ~cfg_overwrite /\ fs_out[PathOf(Current)] # "absent"
       THEN /\ m_pc' = "incr"
            /\ UNCHANGED fs_out
       ELSE /\ m_pc' = "writing"
            /\ fs_out' = [fs_out EXCEPT ![PathOf(Current)] = "partial"]
    /\ UNCHANGED <<fs_ledger, cfg_overwrite, cfg_format, lg_batch, run_no, m_use_progress, m_comics,
                   m_i, progress, m_discovered, m_remove_failed, m_start_ledger, h_pc, h_rest,
                   h_k, h_log, lg_persist, lg_restores, lg_remove_failures, lg_write_failed, NotLg>>

\* comic.write: the pages and the metadata are written and finish() returns.
\* An output unlinked meanwhile stays unlinked.
WriteComicFinish ==
    /\ m_pc = "writing"
    /\ fs_out' = [fs_out EXCEPT ![PathOf(Current)] = IF @ = "partial" THEN "complete" ELSE @]
    /\ m_pc' = "incr"
    /\ UNCHANGED <<fs_ledger, cfg_overwrite, cfg_format, lg_batch, run_no, m_use_progress, m_comics,
                   m_i, progress, m_discovered, m_remove_failed, m_start_ledger, h_pc, h_rest,
                   h_k, h_log, lg_persist, lg_restores, lg_remove_failures, lg_write_failed, NotLg>>

\* comic.write returns Err: `?` leaves write_comics and run, main logs the error
WriteComicFail ==
    /\ m_pc = "writing"
    /\ m_pc' = "returned"
    /\ lg_write_failed' = TRUE
    /\ UNCHANGED <<fs_ledger, fs_out, cfg_overwrite, cfg_format, lg_batch, run_no, m_use_progress,
                   m_comics, m_i, progress, m_discovered, m_remove_failed, m_start_ledger, h_pc,
                   h_rest, h_k, h_log, lg_persist, lg_restores, lg_remove_failures, NotLg>>

\* progress.fetch_add(1, Relaxed)
FetchAddTwice(p) == p + 2

FetchAdd(p) == p + 1

\* progress.fetch_add(1, Relaxed), and the loop goes to the next comic
ProgressIncr ==
    /\ m_pc = "incr"
    /\ progress' = FetchAdd(progress)
    /\ m_i' = m_i + 1
    /\ m_pc' = "loop"
    /\ UNCHANGED <<fs_ledger, fs_out, cfg_overwrite, cfg_format, lg_batch, run_no, m_use_progress,
                   m_comics, m_discovered, m_remove_failed, m_start_ledger, h_pc, h_rest, h_k, h_log,
                   lg_persist, lg_restores, lg_remove_failures, lg_write_failed, NotLg>>

\* The loop is over: write_comics returns Ok(())
WriteComicsReturn ==
    /\ m_pc = "loop"
    /\ m_i = Len(m_comics)
    /\ m_pc' = "returned"
    /\ UNCHANGED <<fs_ledger, fs_out, cfg_overwrite, cfg_format, lg_batch, run_no, m_use_progress,
                   m_comics, m_i, progress, m_discovered, m_remove_failed, m_start_ledger, h_pc,
                   h_rest, h_k, h_log, lg_persist, lg_restores, lg_remove_failures, lg_write_failed, NotLg>>

\* The handler task is past `ctrl_c().await`: it has no await left and runs
\* on a worker thread, which the runtime joins when main returns.
HandlerActing == h_pc \in {"create", "load", "write", "remove", "exit"}

\* main returns and the process ends
ProcessExit ==
    /\ m_pc = "returned"
    /\ ~HandlerActing
    /\ m_pc' = "off"
    /\ h_pc' = "none"
    /\ UNCHANGED <<fs_ledger, fs_out, cfg_overwrite, cfg_format, lg_batch, run_no, m_use_progress,
                   m_comics, m_i, progress, m_discovered, m_remove_failed, m_start_ledger,
                   h_rest, h_k, h_log, lg_persist, lg_restores, lg_remove_failures, lg_write_failed, NotLg>>

\* The statements of the task after `ctrl_c().await`, in the order of the body:
\* File::create, progress.load, write_all, remove_file, exit(0)
HandlerOrderExitFirst == <<"create", "load", "exit", "write", "remove">>

HandlerOrder == <<"create", "load", "write", "remove", "exit">>

StepAfter(step) ==
    HandlerOrder[(CHOOSE k \in 1..Len(HandlerOrder) : HandlerOrder[k] = step) + 1]

\* ctrl-c while the handler task waits for it: tokio::signal::ctrl_c() resolves
Interrupt ==
    /\ h_pc = "waiting"
    /\ InLoop
    /\ h_pc' = HandlerOrder[1]
    /\ h_k' = Completed
    /\ h_log' = <<>>
    /\ UNCHANGED <<fs_ledger, fs_out, cfg_overwrite, cfg_format, lg_batch, run_no, m_pc,
                   m_use_progress, m_comics, m_i, progress, m_discovered, m_remove_failed,
                   m_start_ledger, h_rest, lg_persist, lg_restores, lg_remove_failures,
                   lg_write_failed, NotLg>>

\* ctrl-c in a run that set up no handler: the signal ends the process
InterruptKills ==
    /\ h_pc = "none"
    /\ InLoop
    /\ m_pc' = "off"
    /\ h_log' = Append(h_log, "signal")
    /\ UNCHANGED <<fs_ledger, fs_out, cfg_overwrite, cfg_format, lg_batch, run_no, m_use_progress,
                   m_comics, m_i, progress, m_discovered, m_remove_failed, m_start_ledger, h_pc,
                   h_rest, h_k, lg_persist, lg_restores, lg_remove_failures, lg_write_failed,
                   NotLg>>

\* std::fs::File::create(PROGRESS_FILE).unwrap(): the file is created or
\* truncated; a failure panics the handler task, and only it.
HandlerCreate ==
    /\ h_pc = "create"
    /\ \/ /\ fs_ledger' = File(EmptyText)
          /\ h_pc' = StepAfter("create")
          /\ h_log' = Append(h_log, "create")
          /\ lg_restores' = 0
          /\ lg_remove_failures' = 0
       \/ /\ h_pc' = "dead"
          /\ h_log' = Append(h_log, "panic")
          /\ UNCHANGED <<fs_ledger, lg_restores, lg_remove_failures>>
    /\ UNCHANGED <<fs_out, cfg_overwrite, cfg_format, lg_batch, run_no, m_pc, m_use_progress,
                   m_comics, m_i, progress, m_discovered, m_remove_failed, m_start_ledger,
                   h_rest, h_k, lg_persist, lg_write_failed, NotLg>>

\* let rest = &comics[progress.load(Relaxed)..]
Rest(comics, p) == SubSeq(comics, p + 1, Len(comics))

HandlerLoad ==
    /\ h_pc = "load"
    /\ h_rest' = Rest(m_comics, progress)
    /\ h_pc' = StepAfter("load")
    /\ UNCHANGED <<fs_ledger, fs_out, cfg_overwrite, cfg_format, lg_batch, run_no, m_pc,
                   m_use_progress, m_comics, m_i, progress, m_discovered, m_remove_failed,
                   m_start_ledger, h_k, h_log, lg_persist, lg_restores, lg_remove_failures,
                   lg_write_failed, NotLg>>

\* match file.write_all(serde_json::to_string(rest).unwrap().as_bytes()) {
\*     Ok(_) => info!(..), Err(_) => error!(..) }
HandlerWrite ==
    /\ h_pc = "write"
    /\ \/ /\ fs_ledger' = File(to_string(h_rest))
          /\ lg_persist' = [set |-> TRUE, k |-> h_k, done |-> Completed, rest |-> h_rest]
          /\ h_log' = Append(h_log, "write_ok")
       \/ /\ UNCHANGED <<fs_ledger, lg_persist>>
          /\ h_log' = Append(h_log, "write_err")
    /\ h_pc' = StepAfter("write")
    /\ UNCHANGED <<fs_out, cfg_overwrite, cfg_format, lg_batch, run_no, m_pc, m_use_progress,
                   m_comics, m_i, progress, m_discovered, m_remove_failed, m_start_ledger,
                   h_rest, h_k, lg_restores, lg_remove_failures, lg_write_failed, NotLg>>

\* rest.get(0).map(|x| x.format(..).ok()).flatten(), then remove_file(&x):
\* a file is unlinked, a directory (output format Dir) or a missing path is
\* an Err that is logged.
HandlerRemove ==
    /\ h_pc = "remove"
    /\ IF h_rest = <<>>
       THEN /\ h_log' = Append(h_log, "no_path")
            /\ UNCHANGED fs_out
       ELSE IF cfg_format = "CBZ" /\ fs_out[PathOf(h_rest[1])] # "absent"
       THEN /\ fs_out' = [fs_out EXCEPT ![PathOf(h_rest[1])] = "absent"]
            /\ h_log' = Append(h_log, "removed")
       ELSE /\ h_log' = Append(h_log, "remove_err")
            /\ UNCHANGED fs_out
    /\ h_pc' = StepAfter("remove")
    /\ UNCHANGED <<fs_ledger, cfg_overwrite, cfg_format, lg_batch, run_no, m_pc, m_use_progress,
                   m_comics, m_i, progress, m_discovered, m_remove_failed, m_start_ledger,
                   h_rest, h_k, lg_persist, lg_restores, lg_remove_failures, lg_write_failed,
                   NotLg>>

\* exit(0)
HandlerExit ==
    /\ h_pc = "exit"
    /\ m_pc' = "off"
    /\ h_pc' = "none"
    /\ h_log' = Append(h_log, "exit")
    /\ UNCHANGED <<fs_ledger, fs_out, cfg_overwrite, cfg_format, lg_batch, run_no, m_use_progress,
                   m_comics, m_i, progress, m_discovered, m_remove_failed, m_start_ledger,
                   h_rest, h_k, lg_persist, lg_restores, lg_remove_failures, lg_write_failed,
                   NotLg>>

-----------------------------------------------------------------------------
(* eval_source_response and make_request                                    *)

EvInit ==
    /\ ev_plan \in UNION {[1..n -> 0..MaxReqs] : n \in 0..MaxHops}
    /\ ev_response = FirstResponse(ev_plan)
    /\ ev_pc = "loop"
    /\ ev_idx = 0
    /\ ev_responses = <<>>
    /\ ev_sent = <<>>
    /\ ev_calls = <<>>
    /\ ev_result = Pending

EvIdle ==
    /\ ev_plan = <<>>
    /\ ev_response = Value(<<>>)
    /\ ev_pc = "idle"
    /\ ev_idx = 0
    /\ ev_responses = <<>>
    /\ ev_sent = <<>>
    /\ ev_calls = <<>>
    /\ ev_result = Pending

\* SourceResponse::Value(v) => return Ok(v)
EvalValue ==
    /\ ev_pc = "loop"
    /\ ev_response.kind = "Value"
    /\ ev_result' = Ok(ev_response.v)
    /\ ev_pc' = "done"
    /\ UNCHANGED <<ev_plan, ev_response, ev_idx, ev_responses, ev_sent, ev_calls, NotEv>>

\* SourceResponse::Request(r) => make_request(r): let mut responses = Vec::new()
EvalRequest ==
    /\ ev_pc = "loop"
    /\ ev_response.kind = "Request"
    /\ ev_pc' = "send"
    /\ ev_idx' = 1
    /\ ev_responses' = <<>>
    /\ UNCHANGED <<ev_plan, ev_response, ev_sent, ev_calls, ev_result, NotEv>>

\* responses.push(bytes)
PushResponseFront(responses, bytes) == <<bytes>> \o responses

PushResponse(responses, bytes) == Append(responses, bytes)

\* request.send().await?.bytes().await? returned Err: `?` leaves make_request,
\* and the `?` of eval_source_response leaves the loop.
SendFailedSkipped ==
    /\ ev_sent' = Append(ev_sent, [req |-> <<ev_response.hop, ev_idx>>, got |-> TransportFailure])
    /\ ev_idx' = ev_idx + 1
    /\ UNCHANGED <<ev_pc, ev_result, ev_responses>>

SendFailed ==
    /\ ev_sent' = Append(ev_sent, [req |-> <<ev_response.hop, ev_idx>>, got |-> TransportFailure])
    /\ ev_result' = Err("RequestError")
    /\ ev_pc' = "done"
    /\ UNCHANGED <<ev_idx, ev_responses>>

\* One iteration of `for request in request.requests`
MakeRequestSend ==
    /\ ev_pc = "send"
    /\ ev_idx <= ev_plan[ev_response.hop]
    /\ LET req == Requests(ev_plan, ev_response.hop)[ev_idx] IN
         \/ \E d \in Payloads :
              /\ ev_sent' = Append(ev_sent, [req |-> req, got |-> Body(req, d)])
              /\ ev_responses' = PushResponse(ev_responses, Body(req, d))
              /\ ev_idx' = ev_idx + 1
              /\ UNCHANGED <<ev_pc, ev_result>>
         \/ SendFailed
    /\ UNCHANGED <<ev_plan, ev_response, ev_calls, NotEv>>

\* (request.transform)(&responses).ok_or(Error::FailedResponseParse), and the
\* assignment `response = ...` of the loop
TransformResult(t) ==
    IF t.some THEN /\ ev_response' = t.x
                   /\ ev_pc' = "loop"
                   /\ UNCHANGED ev_result
    ELSE /\ ev_result' = Err("FailedResponseParse")
         /\ ev_pc' = "done"
         /\ UNCHANGED ev_response

MakeRequestTransform ==
    /\ ev_pc = "send"
    /\ ev_idx > ev_plan[ev_response.hop]
    /\ LET t == Transform(ev_plan, ev_response.hop, ev_responses) IN
         /\ ev_calls' = Append(ev_calls, [hop |-> ev_response.hop, args |-> ev_responses, ret |-> t])
         /\ TransformResult(t)
    /\ UNCHANGED <<ev_plan, ev_idx, ev_responses, ev_sent, NotEv>>

InitEval == EvInit /\ DlIdle /\ RsIdle /\ LgIdle /\ CfIdle /\ PgIdle /\ MdIdle /\ ArIdle /\ LkIdle /\ UpIdle
NextEval ==
    \/ EvalValue
    \/ EvalRequest
    \/ MakeRequestSend
    \/ MakeRequestTransform
SpecEval == InitEval /\ [][NextEval]_vars

InitDownload == DlInit /\ EvIdle /\ RsIdle /\ LgIdle /\ CfIdle /\ PgIdle /\ MdIdle /\ ArIdle /\ LkIdle /\ UpIdle
NextDownload ==
    \/ DlPull
    \/ \E i \in 1..Len(dl_ids) : DlComplete(i)
    \/ DlYield
    \/ DlFinish
SpecDownload == InitDownload /\ [][NextDownload]_vars

InitResolve == RsInit /\ EvIdle /\ DlIdle /\ LgIdle /\ CfIdle /\ PgIdle /\ MdIdle /\ ArIdle /\ LkIdle /\ UpIdle
NextResolve ==
    \/ GetAllIdsCall
    \/ GetSeriesIds
    \/ SeriesPull
    \/ \E i \in 1..Len(rs_children) : SeriesComplete(i)
    \/ SeriesYield
    \/ SeriesConcat
    \/ \E k \in 1..Len(ResultIds) : ResolveAgain(k)
SpecResolve == InitResolve /\ [][NextResolve]_vars

InitLedger == LgInit /\ EvIdle /\ DlIdle /\ RsIdle /\ CfIdle /\ PgIdle /\ MdIdle /\ ArIdle /\ LkIdle /\ UpIdle
NextLedger ==
    \/ RunStart
    \/ GetComicsRead
    \/ GetComicsRemove
    \/ GetComicsDiscover
    \/ WriteComicsStart
    \/ WriteComicCheck
    \/ WriteComicFinish
    \/ WriteComicFail
    \/ ProgressIncr
    \/ WriteComicsReturn
    \/ ProcessExit
    \/ Interrupt
    \/ InterruptKills
    \/ HandlerCreate
    \/ HandlerLoad
    \/ HandlerWrite
    \/ HandlerRemove
    \/ HandlerExit
SpecLedger == InitLedger /\ [][NextLedger]_vars

InitComic == CfInit /\ EvIdle /\ DlIdle /\ RsIdle /\ LgIdle /\ PgIdle /\ MdIdle /\ ArIdle /\ LkIdle /\ UpIdle
NextComic ==
    \/ GetPages
    \/ GetMetadata
    \/ UseEmbeddedMetadata
    \/ AddIdentifier
    \/ BuildComic
SpecComic == InitComic /\ [][NextComic]_vars

InitPage == PgInit /\ EvIdle /\ DlIdle /\ RsIdle /\ LgIdle /\ CfIdle /\ MdIdle /\ ArIdle /\ LkIdle /\ UpIdle
NextPage ==
    \/ DownloadPage
    \/ DecryptAgain
SpecPage == InitPage /\ [][NextPage]_vars

InitMetadata == MdInit /\ EvIdle /\ DlIdle /\ RsIdle /\ LgIdle /\ CfIdle /\ PgIdle /\ ArIdle /\ LkIdle /\ UpIdle
NextMetadata ==
    \/ ComicrackExport
    \/ ComicrackImport
SpecMetadata == InitMetadata /\ [][NextMetadata]_vars

InitArchive == ArInit /\ EvIdle /\ DlIdle /\ RsIdle /\ LgIdle /\ CfIdle /\ PgIdle /\ MdIdle /\ LkIdle /\ UpIdle
NextArchive ==
    \/ NewComicFile
    \/ WritePage
    \/ ExportAll
    \/ WriteExport
    \/ FinishFile
    \/ OpenArchive
    \/ ReadZipEntry
    \/ ReadReturn
SpecArchive == InitArchive /\ [][NextArchive]_vars

InitLookup ==
    LkInit /\ EvIdle /\ DlIdle /\ RsIdle /\ LgIdle /\ CfIdle /\ PgIdle /\ MdIdle /\ ArIdle /\ UpIdle
NextLookup ==
    \/ SourceFromUrl
    \/ IdFromUrl
    \/ SourceFromName
    \/ SourceFromOwnName
SpecLookup == InitLookup /\ [][NextLookup]_vars

InitUpdate ==
    UpInit /\ EvIdle /\ DlIdle /\ RsIdle /\ LgIdle /\ CfIdle /\ PgIdle /\ MdIdle /\ ArIdle /\ LkIdle
NextUpdate ==
    \/ NewIssue
    \/ UpdateFindNewIds
    \/ UpdateFindFails
    \/ ComicWritten
    \/ ComicFetchFails
    \/ ComicWriteFails
    \/ UpdatePushAndSave
SpecUpdate == InitUpdate /\ [][NextUpdate]_vars

-----------------------------------------------------------------------------
(* Properties of the progress file                                          *)

\* C6: the ledger persisted on an interrupt is exactly the suffix of the
\* batch that starts at the first comic not yet completed: it holds
\* comics[j..] for a number j of completed comics that was current at some
\* moment from the arrival of the interrupt to the write of the file.
LedgerIsUncompletedSuffix ==
    lg_persist.set =>
        \E j \in lg_persist.k..lg_persist.done :
            lg_persist.rest = SubSeq(m_comics, j + 1, Len(m_comics))

\* get_comics has returned in this run
PastStartup == m_pc \in {"write_comics", "loop", "writing", "incr", "returned"}

\* The handler of this run has not created the progress file
HandlerNotCreated == h_pc \in {"none", "waiting", "create", "dead"}

\* This run started with a ledger on disk: a progress file holding a list of comics
StartedWithLedger == m_start_ledger.exists /\ m_start_ledger.text.kind = "json"

\* C7 as stated: a run that starts with a ledger present gets exactly the
\* ledger's comics from get_comics, without discovery, and the file is
\* deleted before a comic is processed unless the deletion failed and was logged.
LedgerRestoredOnStart ==
    (StartedWithLedger /\ PastStartup) =>
        /\ m_comics = m_start_ledger.text.list
        /\ ~m_discovered
        /\ HandlerNotCreated => (~fs_ledger.exists \/ m_remove_failed)

\* C7, amended: the same for a run with config.use_progress_file set (a run
\* without it ignores the ledger and searches the inputs).
LedgerRestoredWhenEnabled ==
    (StartedWithLedger /\ m_use_progress /\ PastStartup) =>
        /\ m_comics = m_start_ledger.text.list
        /\ ~m_discovered
        /\ HandlerNotCreated =>
              \/ ~fs_ledger.exists /\ ~m_remove_failed
              \/ m_remove_failed /\ fs_ledger = m_start_ledger

\* A run writes a comic restored from a ledger whose deletion failed
RestoredRunWritesAfterFailedRemoval ==
    /\ StartedWithLedger
    /\ m_use_progress
    /\ m_pc = "writing"
    /\ m_comics # <<>>
    /\ Len(m_comics) < Len(lg_batch)
    /\ m_remove_failed

\* C8 as stated: a ledger is restored by at most one run, and no progress
\* file exists before the first interruption or after the startup of the
\* run that follows an interruption.
LedgerConsumedOnce ==
    /\ lg_restores <= 1
    /\ (PastStartup /\ HandlerNotCreated) => ~fs_ledger.exists

\* C8, amended: a ledger is restored by one run more than the number of
\* failed deletions at most, and a progress file outlives the startup of a
\* run only when that run has use_progress_file unset or logged that it
\* could not remove the file; no progress file exists before the first
\* interruption.
LedgerConsumedOncePerRemoval ==
    /\ lg_restores <= 1 + lg_remove_failures
    /\ (PastStartup /\ HandlerNotCreated /\ fs_ledger.exists) =>
          (~m_use_progress \/ m_remove_failed)
    /\ (run_no <= 1 /\ m_pc # "off" /\ HandlerNotCreated) => ~fs_ledger.exists

\* A third run searches the inputs again: the ledger of the first run's
\* interruption was restored and deleted by the second
LedgerGoneAfterRestore ==
    /\ run_no = 3
    /\ m_use_progress
    /\ m_pc = "loop"
    /\ m_discovered
    /\ lg_restores = 1
    /\ lg_remove_failures = 0
    /\ ~fs_ledger.exists

-----------------------------------------------------------------------------
(* Properties of get_all_ids                                                *)

\* C3: every id of a successful get_all_ids result is a leaf, Issue or
\* IssueWithMetadata, whatever the input id and however deep it nests.
ResolveReturnsOnlyLeaves ==
    \A k \in 1..Len(ResultIds) : ResultIds[k].tag \in {"Issue", "IssueWithMetadata"}

\* A series resolved through a corrected id and a nested series to three ids or more
NestedSeriesResolved ==
    /\ rs_input = Series(20)
    /\ Len(ResultIds) >= 3
    /\ \E c \in 1..Len(rs_calls) : rs_calls[c].fn = "get_correct_id"
    /\ \E c \in 1..Len(rs_calls) : rs_calls[c] = SourceCall("get_series_ids", 21)

\* What the child at position i of the listing resolves to
ChildResult(i) == GetAllIds(rs_world, rs_children[i], MaxDepth - 1).res

RECURSIVE ChildrenFlatFrom(_)
ChildrenFlatFrom(i) ==
    IF i > Len(rs_children) THEN <<>> ELSE ChildResult(i).v \o ChildrenFlatFrom(i + 1)

RECURSIVE ChildrenCountFrom(_)
ChildrenCountFrom(i) ==
    IF i > Len(rs_children) THEN 0 ELSE Len(ChildResult(i).v) + ChildrenCountFrom(i + 1)

\* C4: for a Series whose children resolve to k1..kN leaf ids, get_all_ids
\* returns the children's results concatenated in the order of the listing,
\* k1+...+kN ids in all, whatever order the child resolutions complete in.
SeriesConcatenatesInChildOrder ==
    (rs_input.tag = "Series" /\ rs_result.ok = "ok") =>
        /\ \A i \in 1..Len(rs_children) : ChildResult(i).ok = "ok"
        /\ rs_result.v = ChildrenFlatFrom(1)
        /\ Len(rs_result.v) = ChildrenCountFrom(1)

\* A series resolved although a later child completed first, its children
\* resolving to different numbers of ids
SeriesResolvedOutOfOrder ==
    /\ rs_input.tag = "Series"
    /\ rs_result.ok = "ok"
    /\ rs_overtook
    /\ Len(rs_children) >= 2
    /\ Len(ChildResult(1).v) # Len(ChildResult(2).v)
    /\ ChildResult(1).v # <<>>
    /\ ChildResult(2).v # <<>>

\* C5: get_all_ids applied again to an id of its own result returns that id
\* alone and unchanged, and makes no source call (so no request).
ResolveIsIdempotentOnItsOutput ==
    rs_pc = "again" =>
        /\ rs_again.res = Ok(<<rs_result.v[rs_again.k]>>)
        /\ rs_again.calls = <<>>

\* An id with metadata, out of a result that took source calls, resolved again
LeafWithMetadataResolvedAgain ==
    /\ rs_pc = "again"
    /\ rs_again.k >= 2
    /\ rs_result.v[rs_again.k].tag = "IssueWithMetadata"
    /\ rs_calls # <<>>

-----------------------------------------------------------------------------
(* Properties of download_comics                                            *)

\* C1: download_comics returns the comics in the order of the input ids:
\* result[i] is the comic built from ids[i], whatever order the fetches
\* complete in.
DownloadKeepsInputOrder ==
    /\ \A i \in 1..Len(dl_out) :
          /\ dl_out[i].pages = FetchedPages(dl_ids[i].id)
          /\ dl_out[i].metadata.identifiers # <<>>
          /\ dl_out[i].metadata.identifiers[Len(dl_out[i].metadata.identifiers)]
                = Identifier(SourceName, dl_ids[i].id)
    /\ (dl_mode = "try_collect" /\ dl_result.ok = "ok") =>
          /\ Len(dl_result.v) = Len(dl_ids)
          /\ \A i \in 1..Len(dl_ids) :
                Ok(dl_result.v[i]) = ComicFromComicid(dl_world, dl_ids[i])

\* download_comics returned at least three comics after a later fetch had
\* completed before an earlier one
DownloadedOutOfOrder ==
    /\ dl_mode = "try_collect"
    /\ dl_result.ok = "ok"
    /\ Len(dl_result.v) >= 3
    /\ dl_overtook

\* The ids of the batch whose fetch succeeds
FetchedIds == {i \in 1..Len(dl_ids) : ComicFromComicid(dl_world, dl_ids[i]).ok = "ok"}

\* The comics the call has produced: the Vec it returned, or what it wrote
Produced ==
    IF dl_mode = "try_collect"
    THEN IF dl_result.ok = "ok" THEN dl_result.v ELSE <<>>
    ELSE dl_written

\* C2: when fetching one id fails, that id is skipped and the batch goes on:
\* once the call has returned (no write having failed), the comic of every
\* id whose fetch succeeds has been produced.
FailingIdIsSkipped ==
    (dl_result # Pending /\ dl_result # Err("panic")) =>
        \A i \in FetchedIds :
            \E k \in 1..Len(Produced) : Ok(Produced[k]) = ComicFromComicid(dl_world, dl_ids[i])

RECURSIVE AllRequestsFrom(_, _)
AllRequestsFrom(plan, h) ==
    IF h > Len(plan) THEN <<>> ELSE Requests(plan, h) \o AllRequestsFrom(plan, h + 1)

\* Every request of the chain, hop after hop, each hop's in listed order
AllRequests(plan) == AllRequestsFrom(plan, 1)

\* C9: eval_source_response returns a Value as the result; for a Request it
\* sends the requests one after another in listed order, hands the transform
\* the bodies at the positions of their requests, fails with
\* FailedResponseParse when the transform returns None and otherwise goes on
\* with the SourceResponse the transform returned, for every hop of the chain.
EvalFollowsOutcome ==
    /\ \A k \in 1..Len(ev_sent) : ev_sent[k].req = AllRequests(ev_plan)[k]
    /\ \A c \in 1..Len(ev_calls) :
          LET call == ev_calls[c] IN
            /\ call.hop = c
            /\ Len(call.args) = ev_plan[call.hop]
            /\ \A i \in 1..Len(call.args) :
                  \E k \in 1..Len(ev_sent) :
                    /\ ev_sent[k].req = Requests(ev_plan, call.hop)[i]
                    /\ ev_sent[k].got = call.args[i]
            /\ ~call.ret.some =>
                  /\ c = Len(ev_calls)
                  /\ ev_result = Err("FailedResponseParse")
            /\ (call.ret.some /\ c = Len(ev_calls) /\ ev_pc = "loop") =>
                  ev_response = call.ret.x
            /\ (call.ret.some /\ c < Len(ev_calls)) =>
                  call.ret.x = Request(ev_calls[c + 1].hop)
    /\ ev_result.ok = "ok" =>
          /\ ev_response.kind = "Value"
          /\ ev_result.v = ev_response.v
          /\ Len(ev_calls) = Len(ev_plan)
          /\ Len(ev_sent) = Len(AllRequests(ev_plan))
    /\ ev_result = Err("FailedResponseParse") =>
          /\ Len(ev_calls) > 0
          /\ ~ev_calls[Len(ev_calls)].ret.some
    /\ (ev_pc = "loop" /\ ev_response.kind = "Request") => ev_result = Pending

\* A chain of several hops, the first with several requests, evaluated to its value
EvalMultiHopDone ==
    /\ ev_result.ok = "ok"
    /\ Len(ev_calls) >= 2
    /\ Len(ev_calls[1].args) >= 2
    /\ Len(ev_result.v) >= 1

\* C10: a transport failure of a request ends the evaluation with
\* RequestError: it is the last request sent, the transform of its plan is
\* not called, no later hop runs, and no request is sent a second time.
TransportFailureAborts ==
    /\ \A k \in 1..Len(ev_sent) :
          /\ \A j \in 1..(k - 1) : ev_sent[j].req # ev_sent[k].req
          /\ ev_sent[k].got = TransportFailure =>
                /\ k = Len(ev_sent)
                /\ ev_result = Err("RequestError")
                /\ ev_pc = "done"
                /\ \A c \in 1..Len(ev_calls) : ev_calls[c].hop < ev_sent[k].req[1]
    /\ ev_result = Err("RequestError") =>
          /\ Len(ev_sent) > 0
          /\ ev_sent[Len(ev_sent)].got = TransportFailure

\* A request failed while requests of its plan and a later hop were still to come
TransportFailedMidChain ==
    /\ ev_result = Err("RequestError")
    /\ LET last == ev_sent[Len(ev_sent)].req IN
         /\ last[2] < ev_plan[last[1]]
         /\ last[1] < Len(ev_plan)
         /\ Len(ev_sent) >= 2

-----------------------------------------------------------------------------
(* Properties of the OtherWithMetadata arm of get_all_ids                   *)

\* What get_all_ids returns for Other(id) of the input
OtherResult == GetAllIds(rs_world, Other(rs_input.id), MaxDepth - 1).res

\* C11: get_all_ids on OtherWithMetadata(id, meta) resolves Other(id); a
\* result of exactly one Issue(x) becomes [IssueWithMetadata(x, meta)] with
\* the metadata of the input, every other result (an error, no id, several
\* ids, one id that is no plain Issue) is returned as it is.
OtherWithMetadataRetagsSingleIssue ==
    (rs_input.tag = "OtherWithMetadata" /\ rs_pc \in {"done", "again"}) =>
        IF /\ OtherResult.ok = "ok"
           /\ Len(OtherResult.v) = 1
           /\ OtherResult.v[1].tag = "Issue"
        THEN rs_result = Ok(<<[tag |-> "IssueWithMetadata", id |-> OtherResult.v[1].id,
                               meta |-> rs_input.meta]>>)
        ELSE rs_result = OtherResult

\* An OtherWithMetadata whose corrected id is a plain issue was resolved
OtherWithMetadataRetagged ==
    /\ rs_input.tag = "OtherWithMetadata"
    /\ rs_pc = "done"
    /\ OtherResult = Ok(<<Issue(1)>>)
    /\ rs_result.ok = "ok"
    /\ rs_result.v[1].meta = EmbeddedMeta(10)

-----------------------------------------------------------------------------
(* Properties of comic_from_comicid                                         *)

\* How often the history holds a call of source method fn, and the
\* evaluation of a request of fn
TimesCalled(fn) == Cardinality({k \in 1..Len(cf_calls) : cf_calls[k] = Called(fn, cf_id.id)})
TimesRequested(fn) ==
    Cardinality({k \in 1..Len(cf_calls) : cf_calls[k] = Requested(fn, cf_id.id)})

\* Every entry of the history is about the id of the call
OnlyOwnId == \A k \in 1..Len(cf_calls) : cf_calls[k].id = cf_id.id

\* The pages were evaluated to a value
PagesEvaluated == cf_world.pages \in {"value", "fetched"}

\* C12 as stated: comic_from_comicid always calls get_pages, for an Issue it
\* calls get_metadata exactly once, and for an IssueWithMetadata it makes no
\* get_metadata call and no metadata request.
MetadataFetchedOncePerIssue ==
    cf_pc = "done" =>
        /\ OnlyOwnId
        /\ TimesCalled("get_pages") = 1
        /\ cf_id.tag = "Issue" => TimesCalled("get_metadata") = 1
        /\ cf_id.tag = "IssueWithMetadata" =>
              /\ TimesCalled("get_metadata") = 0
              /\ TimesRequested("get_metadata") = 0

\* C12, amended: get_pages is always called, first and once; for an Issue
\* get_metadata is called exactly once after the pages were evaluated and
\* not at all when the pages failed; for an IssueWithMetadata there is no
\* get_metadata call and no metadata request, and the comic carries the
\* embedded metadata.
MetadataFetchedOnceAfterPages ==
    cf_pc = "done" =>
        /\ OnlyOwnId
        /\ TimesCalled("get_pages") = 1
        /\ cf_calls[1] = Called("get_pages", cf_id.id)
        /\ TimesRequested("get_pages") <= 1
        /\ cf_id.tag = "Issue" =>
              /\ TimesCalled("get_metadata") = (IF PagesEvaluated THEN 1 ELSE 0)
              /\ TimesRequested("get_metadata") <= TimesCalled("get_metadata")
              /\ cf_result.ok = "ok" => cf_result.v.metadata.title = cf_world.fetched.title
        /\ cf_id.tag = "IssueWithMetadata" =>
              /\ TimesCalled("get_metadata") = 0
              /\ TimesRequested("get_metadata") = 0
              /\ PagesEvaluated =>
                    /\ cf_result.ok = "ok"
                    /\ cf_result.v.metadata.title = cf_id.meta.title
        /\ cf_result.ok = "ok" => cf_result.v.pages = FetchedPages(cf_id.id)

\* The comic of a plain Issue was built from a pages request and a metadata request
IssueComicBuiltFromTwoRequests ==
    /\ cf_pc = "done"
    /\ cf_id.tag = "Issue"
    /\ cf_result.ok = "ok"
    /\ cf_calls = <<Called("get_pages", cf_id.id), Requested("get_pages", cf_id.id),
                    Called("get_metadata", cf_id.id), Requested("get_metadata", cf_id.id)>>

\* The metadata comic_from_comicid started from: fetched or embedded
SourceMetadata == IF cf_id.tag = "Issue" THEN cf_world.fetched ELSE cf_id.meta

\* C13: the comic's identifiers are the identifiers its metadata came with,
\* unchanged and in place, followed by the one identifier {source.name(), id};
\* metadata that came with none gives exactly [{source.name(), id}].
IdentifierAppendedOnce ==
    (cf_pc = "done" /\ cf_result.ok = "ok") =>
        LET ids == cf_result.v.metadata.identifiers
            old == SourceMetadata.identifiers IN
          /\ Len(ids) = Len(old) + 1
          /\ \A k \in 1..Len(old) : ids[k] = old[k]
          /\ ids[Len(ids)] = [source |-> SourceName, id |-> cf_id.id]
          /\ old = <<>> => ids = <<[source |-> SourceName, id |-> cf_id.id]>>
          /\ cf_result.v.metadata.title = SourceMetadata.title

\* The comic of an id whose metadata already carried two identifiers, one of
\* them of this source
IdentifierAppendedToTwo ==
    /\ cf_pc = "done"
    /\ cf_result.ok = "ok"
    /\ cf_id.tag = "IssueWithMetadata"
    /\ cf_id.meta.identifiers = <<Identifier("Listing", 7), Identifier(SourceName, 3)>>
    /\ Len(cf_result.v.metadata.identifiers) = 3

-----------------------------------------------------------------------------
(* Properties of decrypt_page                                               *)

\* The size a framed page declares, when it is long enough to hold the field
DeclaredSize == from_le_bytes(SubSeq(pg_bytes, 1, SizeBytes))

\* The page is too short for size and vector, or declares more than it holds
CorruptFrame ==
    \/ Len(pg_bytes) < HeaderBytes
    \/ DeclaredSize > Len(pg_bytes)

\* C14: decoding a DCUniverseInfinite page that is too short for the size
\* and the initialization vector, or whose declared size exceeds the bytes
\* available, never panics: the call returns to its caller.
CorruptFrameNeverPanics ==
    (pg_enc.scheme = "DCUniverseInfinite" /\ pg_pc = "done" /\ CorruptFrame) =>
        pg_out.kind # "panic"

\* Bit p of a byte
Bit(x, p) == (x \div (2 ^ p)) % 2

\* out is in XORed with the key repeated: out[i] = in[i] XOR key[i mod len(key)],
\* bit by bit (positions counted from 0 in the source, from 1 here)
IsXorOf(out, in, key) ==
    /\ Len(out) = Len(in)
    /\ \A i \in 1..Len(in) : \A p \in 0..(ByteWidth - 1) :
          Bit(out[i], p) = (IF Bit(in[i], p) = Bit(key[((i - 1) % Len(key)) + 1], p) THEN 0 ELSE 1)

\* C15 as stated: for every input and every key the XOR scheme returns as
\* many bytes as it was given, each the input byte XORed with the key byte
\* at its position modulo the key length, and a second application with
\* the same key gives the input back.
XorIsInvolutionForEveryKey ==
    (pg_enc.scheme = "XOR" /\ pg_pc \in {"done", "again"}) =>
        /\ pg_out.kind = "returned"
        /\ Len(pg_out.v) = Len(pg_bytes)
        /\ IsXorOf(pg_out.v, pg_bytes, pg_enc.key)
        /\ pg_pc = "again" => pg_back = Returned(pg_bytes)

\* C15, amended: the same for every key that is not empty; with an empty key
\* the scheme returns no bytes at all, whatever the input.
XorIsInvolutionForNonEmptyKey ==
    (pg_enc.scheme = "XOR" /\ pg_pc \in {"done", "again"}) =>
        /\ pg_out.kind = "returned"
        /\ pg_enc.key # <<>> =>
              /\ IsXorOf(pg_out.v, pg_bytes, pg_enc.key)
              /\ pg_pc = "again" => pg_back = Returned(pg_bytes)
        /\ pg_enc.key = <<>> => pg_out.v = <<>>

\* Three bytes went through a two-byte key twice: changed by the first
\* application, restored by the second
XorRoundTripDone ==
    /\ pg_enc.scheme = "XOR"
    /\ pg_pc = "again"
    /\ Len(pg_enc.key) = 2
    /\ pg_enc.key[1] # pg_enc.key[2]
    /\ Len(pg_bytes) = 3
    /\ pg_out.v[3] # pg_bytes[3]
    /\ pg_back.v = pg_bytes

-----------------------------------------------------------------------------
(* Properties of the ComicRack export                                       *)

\* C17: export followed by import is the identity on a Metadata whose
\* fields outside the ComicRack document are default: title, series,
\* publisher, number, year, month, day and every author come back.
ComicrackRoundTrip ==
    md_pc = "done" => md_back = md_in

-----------------------------------------------------------------------------
(* Properties of the archive                                                *)

\* C16: reading an archive written by Comic::write imports the metadata
\* exports stored in it: the comic read has the metadata that was written.
ArchiveMetadataImported ==
    ar_pc = "read_done" => ar_read.metadata = ar_comic.metadata

\* The write_file calls a successful write makes for the pages from index n
\* on: one per page to download, named after the index of the page
RECURSIVE PageWritesFrom(_)
PageWritesFrom(n) ==
    IF n >= Len(ar_comic.pages) THEN <<>>
    ELSE (IF ar_comic.pages[n + 1].page_type = "Url"
          THEN <<[op |-> "write_file",
                  name |-> [stem |-> <<Title(ar_comic), n>>,
                            ext |-> ar_comic.pages[n + 1].file_format],
                  data |-> PageData(n)]>>
          ELSE <<>>)
         \o PageWritesFrom(n + 1)

\* The names of the metadata exports, in the order of export_all
ExportNames == <<FileName("comicinfo", "xml"), FileName("grawlix", "json")>>

\* C18: a Comic::write that succeeds has called write_file once per page to
\* download, in page order and for no container page, then write_file for
\* comicinfo.xml and for grawlix.json, then finish() once; and no write
\* ever calls write_file after finish() or finish() twice.
WriteOrderThenFinish ==
    /\ \A k \in 1..Len(ar_sink) : ar_sink[k].op = "finish" => k = Len(ar_sink)
    /\ ar_result = Ok("unit") =>
          LET pages == PageWritesFrom(0)
              np == Len(pages) IN
            /\ Len(ar_sink) = np + 3
            /\ SubSeq(ar_sink, 1, np) = pages
            /\ \A e \in 1..2 :
                  /\ ar_sink[np + e].op = "write_file"
                  /\ ar_sink[np + e].name = ExportNames[e]
            /\ ar_sink[np + 3] = Finish

\* A comic whose first page is in a container and whose second is downloaded
\* was written
MixedComicWritten ==
    /\ ar_result = Ok("unit")
    /\ Len(ar_comic.pages) = 2
    /\ ar_comic.pages[1].page_type = "Container"
    /\ ar_comic.pages[2].page_type = "Url"
    /\ Len(ar_sink) = 4

-----------------------------------------------------------------------------
(* Properties of the two buffers                                            *)

\* The comic_from_comicid futures that were started and have not completed
DlInFlight == {i \in 1..Len(dl_ids) : InQueue(i) /\ i \notin dl_ready}

\* C19: at every moment of download_comics and download_and_write_comics at
\* most 5 comic_from_comicid fetches are in flight, and the fetch of ids[i]
\* is started only when the fetches of all earlier ids have been started.
FetchesCappedAndStartedInOrder ==
    /\ [](Cardinality(DlInFlight) <= BufferSize)
    /\ [][\A i \in 1..Len(dl_ids) :
             (InQueue(i)' /\ ~InQueue(i)) => (dl_next = i - 1 /\ dl_next' = i)]_vars

\* Five fetches are in flight, the last id's among them, after an earlier
\* fetch was yielded
SixthFetchStartedAfterYield ==
    /\ Len(dl_ids) > BufferSize
    /\ dl_next = Len(dl_ids)
    /\ Cardinality(DlInFlight) = BufferSize
    /\ Len(dl_out) + Len(dl_written) + Len(dl_log) > 0

\* The resolutions of children that were started and have not completed
SeriesInFlight ==
    {i \in 1..Len(rs_children) : (\E k \in 1..Len(rs_queue) : rs_queue[k] = i) /\ i \notin rs_ready}

\* C20: while get_all_ids expands a Series, at most 5 resolutions of its
\* children are in flight.
ChildResolutionsCapped ==
    rs_pc = "stream" => Cardinality(SeriesInFlight) <= BufferSize

\* Five children of a series of more than five are in flight and the next
\* child waits
FiveChildrenInFlightOneWaiting ==
    /\ rs_pc = "stream"
    /\ Len(rs_children) > BufferSize
    /\ Cardinality(SeriesInFlight) = BufferSize
    /\ rs_next < Len(rs_children)

-----------------------------------------------------------------------------
(* Properties of the interrupt handler and the progress counter             *)

\* The steps of the interrupt logged in this run that ended the process
Terminations == {k \in 1..Len(h_log) : h_log[k] \in {"exit", "signal"}}

\* The process was ended at step k after the progress file was created, the
\* write of the ledger returned and the removal of the output was tried
EndedInOrder(k) ==
    /\ k = 4
    /\ h_log[1] = "create"
    /\ h_log[2] \in {"write_ok", "write_err"}
    /\ h_log[3] \in {"removed", "remove_err", "no_path"}
    /\ h_log[4] = "exit"

LedgerFailuresAreOnlyLogged ==
    /\ h_pc # "dead"
    /\ \A k \in 1..Len(h_log) : h_log[k] # "panic"

\* C26: when a run interrupted in its batch write is followed by a run that
\* resumes from the ledger and writes every comic it restored, every comic
\* of the batch has a complete output.
ResumedRunCompletesEveryOutput ==
    (/\ run_no = 2
     /\ StartedWithLedger
     /\ m_use_progress
     /\ ~lg_write_failed
     /\ m_pc = "returned"
     /\ m_i = Len(m_comics)
     /\ h_pc \in {"none", "waiting"}) =>
        \A i \in 1..Len(lg_batch) : fs_out[PathOf(lg_batch[i])] = "complete"

\* C27: the handler never removes a complete output, one written by an
\* earlier run or one whose write has finished.
CompleteOutputIsNeverRemoved ==
    [][\A p \in DOMAIN fs_out : fs_out[p] = "complete" => fs_out'[p] # "absent"]_vars

\* C30 as stated: during write_comics the counter is in 0..len and equals
\* the number of comics whose write_comic has returned.
ProgressEqualsCompleted ==
    /\ 0 <= progress
    /\ progress <= Len(m_comics)
    /\ m_pc \in {"loop", "writing", "incr", "returned"} => progress = Completed

\* C30, amended: the counter only increases, stays in 0..len, is never ahead
\* of the comics whose write_comic has returned and at most one behind them
\* (from the return of write_comic to fetch_add); the handler's slice is in
\* range and a write error leaves the counter at the completed comics.
ProgressLagsByAtMostOne ==
    /\ [](/\ 0 <= progress
          /\ progress <= Len(m_comics)
          /\ m_pc \in {"loop", "writing", "incr", "returned"} =>
                /\ progress <= Completed
                /\ Completed <= progress + 1
          /\ m_pc \in {"loop", "writing", "returned"} => progress = Completed
          /\ h_pc \in {"write", "remove", "exit"} =>
                \E j \in 0..Len(m_comics) : h_rest = SubSeq(m_comics, j + 1, Len(m_comics)))
    /\ [][(InLoop /\ InLoop') => progress' >= progress]_vars

\* The write of the second comic failed after the first was counted
SecondWriteFailedAfterCount ==
    /\ m_pc = "returned"
    /\ lg_write_failed
    /\ Len(m_comics) = 2
    /\ m_i = 1
    /\ progress = 1

-----------------------------------------------------------------------------
(* Properties of a failing child of a Series                                *)

\* C25: when get_all_ids has expanded a Series, the resolution of every
\* child was started and ran to its end, whether or not the resolution of
\* another child failed: the collected results are those of all children.
EveryChildOfSeriesResolved ==
    (rs_input.tag = "Series" /\ rs_pc \in {"done", "again"}) =>
        /\ Len(rs_evaluated) = Len(rs_children)
        /\ \A i \in 1..Len(rs_children) :
              rs_evaluated[i] = GetAllIds(rs_world, rs_children[i], MaxDepth - 1).res

\* The first child failed and the second, a series, was resolved after it
ChildResolvedAfterFailedSibling ==
    /\ rs_pc = "done"
    /\ Len(rs_children) = 2
    /\ Len(rs_evaluated) = 2
    /\ rs_evaluated[1].ok = "err"
    /\ rs_children[2].tag = "Series"
    /\ rs_evaluated[2].ok = "ok"
    /\ rs_evaluated[2].v # <<>>

-----------------------------------------------------------------------------
(* Properties of the lookup tables                                          *)

\* The least index of a non-empty set of indices
FirstOf(M) == CHOOSE k \in M : \A l \in M : k <= l

\* The entries of the url table whose pattern matches the url
MatchingEntries == {k \in 1..Len(UrlTable) : is_match(UrlTable[k].pattern, lk_url)}

\* C23: source_from_url returns the source of the first entry of its table
\* whose pattern matches the url, and UrlNotSupported with the url when none
\* matches; source_from_name returns for a name what it returns for the
\* name in lower case, and InvalidSourceName with the name as it was given
\* when the name is in no arm.
SourceFoundByFirstPatternOrName ==
    /\ lk_source # Pending =>
          IF MatchingEntries = {}
          THEN lk_source = Err(UrlNotSupported(lk_url))
          ELSE lk_source = Ok(UrlTable[FirstOf(MatchingEntries)].source)
    /\ lk_named # Pending =>
          LET lower == source_from_name(to_lowercase(lk_name)) IN
            IF lower.ok = "ok"
            THEN lk_named = lower
            ELSE lk_named = Err(InvalidSourceName(lk_name))

\* A url that two patterns match gave the source of the first, and a name in
\* capitals gave its source
FirstOfTwoPatternsAndCapitals ==
    /\ Cardinality(MatchingEntries) = 2
    /\ lk_source = Ok("Marvel")
    /\ lk_name = <<"M", "A", "R", "V", "E", "L">>
    /\ lk_named = Ok("Marvel")

\* The pairs of the source found whose pattern matches the url
MatchingPairs ==
    {k \in 1..Len(IdPairs(lk_source.v)) : is_match(IdPairs(lk_source.v)[k].pattern, lk_url)}

\* C24: id_from_url gives the id of the first pair whose pattern matches the
\* url: an id of that pair's type holding the pattern's first capture group;
\* and UrlNotSupported with the url when no pair matches.
IdFromFirstMatchingPair ==
    lk_id # Pending =>
        IF MatchingPairs = {}
        THEN lk_id = Err(UrlNotSupported(lk_url))
        ELSE LET pair == IdPairs(lk_source.v)[FirstOf(MatchingPairs)] IN
               /\ lk_id.ok = "ok"
               /\ lk_id.v.tag = pair.idtype
               /\ Some(lk_id.v.id) = first_capture(pair.pattern, lk_url)

\* The issue url of the League of Legends test, which both patterns of the
\* source match, gave the Issue of the test
IssueOfTwoMatchingPairs ==
    /\ lk_url = LeagueIssueUrl
    /\ lk_id = Ok(Issue(<<"s", "t", "a", "r", "-", "g", "u", "a", "r", "d", "i", "a", "n", "/", "i", "s", "s", "u", "e", "-", "1">>))
    /\ Cardinality(MatchingPairs) = 2

\* C29: the name of every source that source_from_url returns is a name
\* source_from_name finds, and it finds the same source.
SourceNamesRoundTrip ==
    lk_back # Pending => lk_back = Ok(lk_source.v)

-----------------------------------------------------------------------------
(* Properties of update                                                     *)

\* C28: an issue id is in downloaded_issues of the update file only if its
\* comic was fetched and written; and an issue whose download failed is
\* among the new ids the next update finds.
OnlyWrittenIssuesAreRecorded ==
    /\ \A k \in 1..Len(up_file) : up_file[k] \in up_disk
    /\ up_pc = "download" =>
          \A k \in 1..Len(up_ids) :
              inner(up_ids[k]) \notin up_disk => VecContains(up_comicids, up_ids[k])

====
